---- MODULE Spec2Model ----
(***************************************************************************)
(* Model of treefmt's formatting pipeline.                                 *)
(*                                                                         *)
(*   cli/format.go        Format.Run: validation of the formatter          *)
(*                        configuration, wiring, and the concurrent tasks  *)
(*                        (stages, completion drainer, dispatcher, path    *)
(*                        producer) joined by an errgroup                  *)
(*   format/formatter.go  Formatter.Wants / Put / Run / apply / Close      *)
(*   walk/git.go          GitReader.Read / Close                           *)
(*                                                                         *)
(* The cache package, the stats package and the forwarding helpers of the  *)
(* format package are not part of the sources at hand; they are modelled   *)
(* from the design document and marked as such where they are defined.     *)
(***************************************************************************)
EXTENDS Naturals, Sequences, FiniteSets, TLC

\* ------------------------------------------------------------------ bounds
\* Number of formatter names that may appear in a configuration.
NumNames == 3
\* Longest history the cycle walk records; the walk itself goes on, and
\* historyTurn keeps the parity of the length beyond it.
MaxHistory == 4

\* Number of paths a tree may hold.
NumPaths == 3
\* Capacity of pathsCh, of completedCh and of every inbox (1024 in the code).
ChanCap == 1
\* batchSize of a formatter and of the completion drainer (1024 in the code);
\* the runs on batch capacities take them from BatchSize upwards.
BatchSize == 1
\* Number of consecutive runs on the same tree and cache.
MaxRuns == 2
\* Longest output of git ls-files, in paths.
MaxListing == 3
\* Longest files slice a caller hands to GitReader.Read.
MaxFiles == 2
\* Most listed paths one read of the pipe brings into the scanner's buffer.
ScanAhead == 2

Universe == 1..NumNames
Paths == 1..NumPaths
\* The empty runs-before field (formatterCfg.Before == "").
NoName == 0

Range(s) == { s[i] : i \in 1..Len(s) }

VARIABLES
    configured,     \* names of cfg.Formatters
    before,         \* formatterCfg.Before of every configured formatter
    filterNames,    \* Cli.Formatters
    missingCmd,     \* configured formatters whose command cannot be located
    allowMissing,   \* Cli.AllowMissingFormatter
    phase,          \* position of Format.Run before the tasks are started
    runErr,         \* error Format.Run returned, "none" while it has not
    errNames,       \* the formatter names the returned error carries
    cdVisited,      \* cycle detection: names the outer loop has finished
    cdName,         \* cycle detection: name the current walk started from
    cdCur,          \* cycle detection: childName, NoName between two walks
    history,        \* cycle detection: history of the current walk
    historyTurn,    \* cycle detection: len(history) modulo 2 once past MaxHistory
    formatters,     \* names of the initialised formatters
    child,          \* SetChild: wired downstream of every formatter
    parent,         \* SetParent: wired upstream of every formatter
    \* inputs of a run
    includes,       \* compiled include globs of every configured formatter
    excludes,       \* compiled exclude globs of every configured formatter
    faulty,         \* formatters whose program may exit non-zero
    touching,       \* formatters whose program modifies the files it is given
    walkFault,      \* "none", "create" (walk.New fails), "walk" (path not found)
    treeSize,       \* the walker yields the paths 1..treeSize
    irregular,      \* the paths that are directories or symlinks
    clearCache,     \* Cli.ClearCache
    noCache,        \* Cli.NoCache
    failOnChange,   \* Cli.FailOnChange
    batchSize,      \* batchSize of the completion drainer
    fBatchSize,     \* f.batchSize of every formatter
    \* the tasks of a run
    cancelled,      \* ctx.Done() of the errgroup's context is closed
    egErr,          \* first error a task returned to the errgroup
    panicked,       \* a goroutine panicked: the process is gone
    pathsCh,        \* buffered channel pathsCh
    pathsClosed,    \* close(pathsCh) has happened
    ppc,            \* path producer: "idle", "start", "walk", "send", "done"
    pNext,          \* path producer: next path of the walk
    dpc,            \* dispatcher: "idle", "range", "close", "await", "done"
    dPath,          \* dispatcher: path being passed to the formatters
    dTodo,          \* dispatcher: formatters that want dPath and have not got it
    inbox,          \* f.inbox of every formatter
    inboxClosed,    \* close(f.inbox) has happened
    batch,          \* f.batch of every formatter
    spc,            \* stage: "idle", "loop", "invoke", "emit", "invokeF", "emitF", "done"
    sIdx,           \* stage: index in f.batch of the next path to pass on
    sRet,           \* stage: what Formatter.Run returned, and of which invocation
    completedCh,    \* buffered channel completedCh
    completedClosed,\* close(completedCh) has happened
    cpc,            \* completion drainer: "idle", "loop", "done"
    cBatch,         \* completion drainer: batch
    changes,        \* completion drainer: changes
    cRet,           \* completion drainer: what the task returned
    \* the cache, kept from run to run
    cache,          \* per path: "none", "fresh" (entry equals the file), "stale"
    entrySig,       \* per path: formatter-set signature stored with the entry
    fmtSig,         \* formatter-set signature of the current configuration
    run,            \* number of the current run
    prev,           \* what the previous run was: its result and what followed
    atOpen,         \* the cache as the current run found it at cache.Open
    \* history of the current run, kept for the properties
    started,        \* per formatter: paths an invocation of its program was given
    invSeq,         \* per formatter: the batches of its invocations, one after the other
    succeeded,      \* per formatter: paths of its successful invocations
    failures,       \* per formatter: failed invocations, counted up to 2
    retried,        \* per formatter: an invocation started after a failed one
    recorded,       \* paths passed to cache.Update
    emitted,        \* per path: completion records sent on completedCh
    flushed,        \* per path: completion records passed to processBatch
    putSeq,         \* per formatter: the paths put into its inbox, in order
    outSeq,         \* per formatter: the paths it forwarded or marked complete, in order
    \* walk/git.go: a GitReader, the git command behind it and its caller
    listing,        \* output of git ls-files: per listed path, what os.Stat finds
    scanner,        \* g.scanner: "nil" until the first Read, then "set"
    cmdRun,         \* the goroutine of g.eg: "none", "running", "returned"
    starts,         \* how many times the git command has been started
    written,        \* listed paths that have gone through the pipe to the scanner
    scanned,        \* listed paths g.scanner.Scan has returned
    ctxDone,        \* ctx.Done() of the caller's context is closed
    rpc,            \* Read: "idle" between two calls, "loop", "scan"
    rLen,           \* Read: len(files)
    rN,             \* Read: n
    rFiles,         \* Read: files[0..n-1], by the listed path's number
    rErr,           \* Read: err, "nil", "EOF", "ctx" (ctx.Err()) or "stat"
    statsTraversed, \* g.stats: the Traversed counter
    handed,         \* the listed paths Read has put into files, call after call
    closePc         \* Close: "no" (not called), "wait", "returned"

cfgVars == <<configured, before, filterNames, missingCmd, allowMissing>>
cdVars == <<cdVisited, cdName, cdCur, history, historyTurn>>
errVars == <<runErr, errNames>>
wireVars == <<formatters, child, parent>>
inVars == <<includes, excludes, faulty, touching, walkFault, treeSize, irregular, clearCache,
            noCache, failOnChange, batchSize, fBatchSize>>
egVars == <<cancelled, egErr, panicked>>
prodVars == <<ppc, pNext>>
dispVars == <<dpc, dPath, dTodo>>
stageVars == <<batch, spc, sIdx, sRet>>
drainVars == <<cpc, cBatch, changes, cRet>>
chanVars == <<pathsCh, pathsClosed, inbox, inboxClosed, completedCh, completedClosed>>
cacheVars == <<cache, entrySig>>
runVars == <<fmtSig, run, prev, atOpen>>
ghostVars == <<started, invSeq, succeeded, failures, retried, recorded, emitted, flushed>>
seqVars == <<putSeq, outSeq>>
taskVars == <<egVars, prodVars, dispVars, stageVars, drainVars, chanVars, ghostVars,
              seqVars>>
restVars == <<inVars, taskVars, cacheVars, runVars>>
gitVars == <<listing, scanner, cmdRun, starts, written, scanned, ctxDone, rpc, rLen, rN,
             rFiles, rErr, statsTraversed, handed, closePc>>
vars == <<cfgVars, phase, errVars, cdVars, wireVars, restVars, gitVars>>

\* ------------------------------------------------------------ configuration
\* Every configuration over the universe of names: a runs-before field is
\* empty, names a configured formatter, or names one that is not configured.
AllConfigs ==
    UNION { { [names |-> S, before |-> b] : b \in [S -> Universe \cup {NoName}] }
            : S \in SUBSET Universe \ {{}} }

\* The runs-before edge of a configured formatter, NoName at the end of a chain.
BeforeOf(b, n) == IF n \in DOMAIN b THEN b[n] ELSE NoName

RECURSIVE Follow(_, _, _)
\* The formatter reached from n after k runs-before edges (NoName when the
\* chain ends earlier).
Follow(b, n, k) ==
    IF k = 0 \/ n = NoName THEN n ELSE Follow(b, BeforeOf(b, n), k - 1)

\* n lies on a runs-before cycle: following edges from n comes back to n.
OnCycle(b, n) == \E k \in 1..NumNames : Follow(b, n, k) = n
CycleNames(b) == { n \in DOMAIN b : OnCycle(b, n) }
\* n's chain leads into a cycle (n on it or not).
ReachesCycle(b, n) == \E k \in 0..NumNames : Follow(b, n, k) \in CycleNames(b)

\* includeFormatter without the filter: every configured formatter is taken.
includeFormatterAll(name) == TRUE

\* includeFormatter (format.go:61-68)
includeFormatter(name) ==
    IF filterNames = {} THEN TRUE ELSE name \in filterNames

\* ------------------------------------------------------------------- Init
\* NewGitReader (git.go:117-123): no scanner, an errgroup without a
\* goroutine, nothing read and nothing counted.
NewGitReader ==
    /\ scanner = "nil"
    /\ cmdRun = "none"
    /\ starts = 0
    /\ written = 0
    /\ scanned = 0
    /\ ctxDone = FALSE
    /\ rpc = "idle"
    /\ rLen = 0
    /\ rN = 0
    /\ rFiles = <<>>
    /\ rErr = "nil"
    /\ statsTraversed = 0
    /\ handed = <<>>
    /\ closePc = "no"

\* Format.Run takes its paths from walk.New: no GitReader is read here.
NoGitReader == listing = <<>> /\ NewGitReader

InitGraphState ==
    /\ phase = "filter"
    /\ runErr = "none"
    /\ errNames = <<>>
    /\ cdVisited = {}
    /\ cdName = NoName
    /\ cdCur = NoName
    /\ history = <<>>
    /\ historyTurn = 0
    /\ formatters = {}
    /\ child = <<>>
    /\ parent = <<>>

\* Formatter.Run has not returned.
NotReturned == [err |-> "running", inv |-> 0]

\* The cache has not been opened in the current run.
NotOpen == [open |-> FALSE, cache |-> <<>>, sig |-> <<>>]

\* No task exists before Format.Run starts them.
InitTaskState ==
    /\ cancelled = FALSE
    /\ egErr = "none"
    /\ panicked = FALSE
    /\ pathsCh = <<>>
    /\ pathsClosed = FALSE
    /\ ppc = "idle"
    /\ pNext = 1
    /\ dpc = "idle"
    /\ dPath = 0
    /\ dTodo = {}
    /\ inbox = <<>>
    /\ inboxClosed = <<>>
    /\ batch = <<>>
    /\ spc = <<>>
    /\ sIdx = <<>>
    /\ sRet = <<>>
    /\ completedCh = <<>>
    /\ completedClosed = FALSE
    /\ cpc = "idle"
    /\ cBatch = <<>>
    /\ changes = 0
    /\ cRet = "running"
    /\ started = <<>>
    /\ invSeq = <<>>
    /\ succeeded = <<>>
    /\ failures = <<>>
    /\ retried = <<>>
    /\ recorded = {}
    /\ emitted = [p \in Paths |-> 0]
    /\ flushed = [p \in Paths |-> 0]
    /\ putSeq = <<>>
    /\ outSeq = <<>>

\* A tree nothing has been recorded of: the cache of a first run.
InitCacheState ==
    /\ cache = [p \in Paths |-> "none"]
    /\ entrySig = [p \in Paths |-> 0]
    /\ fmtSig = 0
    /\ run = 1
    /\ prev = "first"
    /\ atOpen = NotOpen

\* A glob is modelled by the set of paths it matches.
GlobAll == Paths
GlobOne == {1}
GlobRest == Paths \ {1}

\* Validation reads no pattern, no flag and no file.
InitGraph ==
    /\ \E c \in AllConfigs : configured = c.names /\ before = c.before
    /\ filterNames \in { S \in SUBSET Universe : Cardinality(S) <= 1 }
    /\ missingCmd \in { S \in SUBSET configured : Cardinality(S) <= 1 }
    /\ allowMissing \in BOOLEAN
    /\ includes = [f \in configured |-> {GlobAll}]
    /\ excludes = [f \in configured |-> {}]
    /\ faulty = {}
    /\ touching = {}
    /\ walkFault = "none"
    /\ treeSize = NumPaths
    /\ irregular = {}
    /\ clearCache = FALSE
    /\ noCache = FALSE
    /\ failOnChange = FALSE
    /\ batchSize = BatchSize
    /\ fBatchSize = BatchSize
    /\ InitGraphState
    /\ NoGitReader
    /\ InitTaskState
    /\ InitCacheState

\* The configurations of the pipeline runs: two formatters, independent of
\* each other or the first running before the second.
RunConfigs ==
    { [names |-> {1, 2}, before |-> b] :
        b \in { [f \in {1, 2} |-> NoName],
                [f \in {1, 2} |-> IF f = 1 THEN 2 ELSE NoName] } }

\* One run with everything that can go wrong in it: failing programs and a
\* failing path source.
Init ==
    /\ \E c \in RunConfigs : configured = c.names /\ before = c.before
    /\ filterNames = {}
    /\ missingCmd = {}
    /\ allowMissing = FALSE
    /\ includes = [f \in configured |-> {GlobAll}]
    /\ excludes = [f \in configured |-> {}]
    /\ faulty \in SUBSET configured
    /\ touching = {}
    /\ walkFault \in {"none", "create", "walk"}
    /\ treeSize = NumPaths
    /\ irregular = {}
    /\ clearCache = FALSE
    /\ noCache \in BOOLEAN
    /\ failOnChange \in BOOLEAN
    /\ batchSize = BatchSize
    /\ fBatchSize = BatchSize
    /\ InitGraphState
    /\ NoGitReader
    /\ InitTaskState
    /\ InitCacheState

\* ------------------------------------------------- Format.Run: validation
\* format.go:51-59: every name of Cli.Formatters must be configured.
CheckFilter ==
    /\ phase = "filter"
    /\ IF filterNames \subseteq configured
       THEN phase' = "deps" /\ UNCHANGED errVars
       ELSE /\ phase' = "returned"
            /\ runErr' = "filter"
            /\ \E name \in filterNames \ configured : errNames' = <<name>>
    /\ UNCHANGED <<gitVars, cfgVars, cdVars, wireVars, restVars>>

\* The dependency check made after the filter has been applied: only the
\* formatters the filter selects are looked at.
CheckDependenciesOfSelected ==
    /\ phase = "deps"
    /\ IF \A n \in configured :
            includeFormatter(n) => (before[n] = NoName \/ before[n] \in configured)
       THEN phase' = "cycle" /\ UNCHANGED errVars
       ELSE /\ phase' = "returned"
            /\ runErr' = "broken"
            /\ \E name \in configured :
                 /\ includeFormatter(name)
                 /\ before[name] # NoName
                 /\ before[name] \notin configured
                 /\ errNames' = <<name, before[name]>>
    /\ UNCHANGED <<gitVars, cfgVars, cdVars, wireVars, restVars>>

\* format.go:72-82: detect broken dependencies.
CheckDependencies ==
    /\ phase = "deps"
    /\ IF \A n \in configured : before[n] = NoName \/ before[n] \in configured
       THEN phase' = "cycle" /\ UNCHANGED errVars
       ELSE /\ phase' = "returned"
            /\ runErr' = "broken"
            /\ \E name \in configured :
                 /\ before[name] # NoName
                 /\ before[name] \notin configured
                 /\ errNames' = <<name, before[name]>>
    /\ UNCHANGED <<gitVars, cfgVars, cdVars, wireVars, restVars>>

\* history = append(history, childName), recorded up to MaxHistory entries.
AppendHistory(h, n) == IF Len(h) < MaxHistory THEN Append(h, n) ELSE h

\* format.go:85-88: the outer loop takes the next formatter, in map order.
CycleBegin ==
    /\ phase = "cycle"
    /\ cdCur = NoName
    /\ \E name \in configured \ cdVisited :
         /\ cdName' = name
         /\ cdCur' = name
         /\ history' = <<>>
         /\ historyTurn' = 0
    /\ UNCHANGED <<gitVars, cfgVars, phase, errVars, cdVisited, wireVars, restVars>>

\* format.go:89-105: one iteration of the inner loop.
CycleStep ==
    /\ phase = "cycle"
    /\ cdCur # NoName
    /\ history' = AppendHistory(history, cdCur)
    /\ historyTurn' = IF Len(history) < MaxHistory THEN 0 ELSE 1 - historyTurn
    /\ IF before[cdCur] = NoName
       THEN /\ cdVisited' = cdVisited \cup {cdName}
            /\ cdCur' = NoName
            /\ UNCHANGED <<phase, errVars>>
       ELSE IF before[cdCur] = cdName
       THEN /\ phase' = "returned"
            /\ runErr' = "cycle"
            /\ errNames' = history'
            /\ UNCHANGED <<cdVisited, cdCur>>
       ELSE /\ cdCur' = before[cdCur]
            /\ UNCHANGED <<phase, errVars, cdVisited>>
    /\ UNCHANGED <<gitVars, cfgVars, cdName, wireVars, restVars>>

\* format.go:85,106: the outer loop has visited every formatter; the
\* variables of the loop go out of scope.
CycleEnd ==
    /\ phase = "cycle"
    /\ cdCur = NoName
    /\ cdVisited = configured
    /\ phase' = "init"
    /\ cdVisited' = {}
    /\ cdName' = NoName
    /\ history' = <<>>
    /\ historyTurn' = 0
    /\ UNCHANGED <<gitVars, cfgVars, errVars, cdCur, wireVars, restVars>>

\* Init of the formatters that drops a formatter without a command under
\* either policy.
InitFormattersAlwaysAllow ==
    /\ phase = "init"
    /\ phase' = "wire"
    /\ formatters' = { n \in configured : includeFormatter(n) } \ missingCmd
    /\ UNCHANGED <<gitVars, cfgVars, errVars, cdVars, child, parent, restVars>>

\* Init of the formatters that fails on a formatter without a command under
\* either policy.
InitFormattersNeverAllow ==
    /\ phase = "init"
    /\ LET included == { n \in configured : includeFormatter(n) }
       IN IF included \cap missingCmd # {}
          THEN /\ phase' = "returned"
               /\ runErr' = "notfound"
               /\ \E name \in included \cap missingCmd : errNames' = <<name>>
               /\ UNCHANGED formatters
          ELSE /\ phase' = "wire"
               /\ formatters' = included \ missingCmd
               /\ UNCHANGED errVars
    /\ UNCHANGED <<gitVars, cfgVars, cdVars, child, parent, restVars>>

\* format.go:108-126: init formatters.
InitFormatters ==
    /\ phase = "init"
    /\ LET included == { n \in configured : includeFormatter(n) }
       IN IF ~allowMissing /\ included \cap missingCmd # {}
          THEN /\ phase' = "returned"
               /\ runErr' = "notfound"
               /\ \E name \in included \cap missingCmd : errNames' = <<name>>
               /\ UNCHANGED formatters
          ELSE /\ phase' = "wire"
               /\ formatters' = included \ missingCmd
               /\ UNCHANGED errVars
    /\ UNCHANGED <<gitVars, cfgVars, cdVars, child, parent, restVars>>

\* The wiring without ResetBefore: a formatter keeps the downstream it
\* declares, instantiated or not.
WireFormattersKeepingBefore ==
    /\ phase = "wire"
    /\ child' = [f \in formatters |-> before[f]]
    /\ parent' \in { p \in [formatters -> formatters \cup {NoName}] :
                       \A c \in formatters :
                          IF \E f \in formatters : before[f] = c
                          THEN p[c] # NoName /\ before[p[c]] = c
                          ELSE p[c] = NoName }
    /\ phase' = "wired"
    /\ UNCHANGED <<gitVars, cfgVars, errVars, cdVars, formatters, restVars>>

\* format.go:128-140: parent/child relationships. SetParent overwrites, so
\* the parent of a child two formatters name is the one wired last.
WireFormatters ==
    /\ phase = "wire"
    /\ child' = [f \in formatters |->
                   IF before[f] \in formatters THEN before[f] ELSE NoName]
    /\ parent' \in { p \in [formatters -> formatters \cup {NoName}] :
                       \A c \in formatters :
                          IF \E f \in formatters : before[f] = c
                          THEN p[c] # NoName /\ before[p[c]] = c
                          ELSE p[c] = NoName }
    /\ phase' = "wired"
    /\ UNCHANGED <<gitVars, cfgVars, errVars, cdVars, formatters, restVars>>

\* ------------------------------------------------------------ the cache
\* cache.Open(Cli.TreeRoot, clear, formatters): a clear request drops every
\* entry.
CacheOpen(c, clear) == IF clear THEN [p \in Paths |-> "none"] ELSE c

\* The change test of cache.ChangeSet: no entry, the file differs from the
\* entry, or the entry was written under another formatter-set signature.
CacheChanged(p) == cache[p] # "fresh" \/ entrySig[p] # fmtSig

RECURSIVE CountChanged(_)
\* The count cache.Update returns: the paths of the batch whose stored entry
\* differs from the file (each path once, the entry is rewritten at once).
CountChanged(b) ==
    IF b = <<>> THEN 0
    ELSE LET rest == SubSeq(b, 1, Len(b) - 1)
             p == b[Len(b)]
         IN CountChanged(rest)
            + (IF cache[p] = "stale" /\ \A i \in 1..Len(rest) : rest[i] # p
               THEN 1 ELSE 0)

\* An invocation of a program that modifies its files: an entry that
\* matched the file does not any more.
Touched(c, ps) == [p \in Paths |-> IF p \in ps /\ c[p] = "fresh" THEN "stale" ELSE c[p]]

\* ------------------------------------------------------------ Formatter
\* format.PathMatches: one of the globs matches the path.
PathMatches(path, globs) == \E g \in globs : path \in g

\* Formatter.Wants (formatter.go:76-82)
Wants(f, path) ==
    ~PathMatches(path, excludes[f]) /\ PathMatches(path, includes[f])

\* errgroup.Group.Go: the first non-nil error is kept and cancels the context.
EgErrAfter(err) == IF egErr = "none" THEN err ELSE egErr
CancelledAfter(err) == cancelled \/ err # "none"

Running == phase = "running" /\ ~panicked

\* --------------------------------------------- Format.Run: start of the tasks
\* format.go:142: cache.Open with the clear-cache request.
OpenCache == CacheOpen(cache, clearCache)

\* format.go:142-163, 166, 217, 247: the cache is opened, the channels are
\* made and every task is started.
StartTasks ==
    /\ phase = "wired"
    /\ phase' = "running"
    /\ cache' = OpenCache
    /\ inbox' = [f \in formatters |-> <<>>]
    /\ inboxClosed' = [f \in formatters |-> FALSE]
    /\ batch' = [f \in formatters |-> <<>>]
    /\ spc' = [f \in formatters |-> "loop"]
    /\ sIdx' = [f \in formatters |-> 1]
    /\ sRet' = [f \in formatters |-> NotReturned]
    /\ started' = [f \in formatters |-> {}]
    /\ invSeq' = [f \in formatters |-> <<>>]
    /\ putSeq' = [f \in formatters |-> <<>>]
    /\ outSeq' = [f \in formatters |-> <<>>]
    /\ succeeded' = [f \in formatters |-> {}]
    /\ failures' = [f \in formatters |-> 0]
    /\ retried' = [f \in formatters |-> FALSE]
    /\ ppc' = "start"
    /\ dpc' = "range"
    /\ cpc' = "loop"
    /\ atOpen' = [open |-> TRUE, cache |-> cache, sig |-> entrySig]
    /\ UNCHANGED <<gitVars, cfgVars, errVars, cdVars, wireVars, inVars, egVars, pNext, dPath,
                   dTodo, cBatch, changes, cRet, pathsCh, pathsClosed, completedCh,
                   completedClosed, recorded, emitted, flushed, entrySig, fmtSig, run,
                   prev>>

\* ------------------------------------------------------------ path producer
\* format.go:247-263: a walker that cannot be created ends the task before
\* close(pathsCh) is deferred.
ProducerStart ==
    /\ Running
    /\ ppc = "start"
    /\ IF walkFault = "create"
       THEN /\ ppc' = "done"
            /\ egErr' = EgErrAfter("walker")
            /\ cancelled' = TRUE
       ELSE /\ ppc' = "walk"
            /\ UNCHANGED <<egErr, cancelled>>
    /\ UNCHANGED <<gitVars, cfgVars, phase, errVars, cdVars, wireVars, inVars, panicked, pNext,
                   dispVars, stageVars, drainVars, chanVars, ghostVars, seqVars, cacheVars,
                   runVars>>

\* format.go:263-280: the callback of the walk. It looks at ctx.Done(), and
\* a path that is due is then sent on pathsCh whatever happens to ctx. A
\* requested path that is not in the tree ends the walk before any path is
\* passed on; directories and symlinks are passed over (line 272);
\* close(pathsCh) runs on every return.
ProducerWalk ==
    /\ Running
    /\ ppc = "walk"
    /\ IF cancelled
       THEN /\ ppc' = "done"
            /\ pathsClosed' = TRUE
            /\ egErr' = EgErrAfter("ctx")
            /\ UNCHANGED <<cancelled, pNext>>
       ELSE IF walkFault = "walk"
       THEN /\ ppc' = "done"
            /\ pathsClosed' = TRUE
            /\ egErr' = EgErrAfter("pathnotfound")
            /\ cancelled' = TRUE
            /\ UNCHANGED pNext
       ELSE IF pNext > treeSize
       THEN /\ ppc' = "done"
            /\ pathsClosed' = TRUE
            /\ UNCHANGED <<egErr, cancelled, pNext>>
       ELSE IF pNext \in irregular
       THEN /\ pNext' = pNext + 1
            /\ UNCHANGED <<egErr, cancelled, ppc, pathsClosed>>
       ELSE IF noCache \/ CacheChanged(pNext)
       THEN /\ ppc' = "send"
            /\ UNCHANGED <<egErr, cancelled, pNext, pathsClosed>>
       ELSE /\ pNext' = pNext + 1
            /\ UNCHANGED <<egErr, cancelled, ppc, pathsClosed>>
    /\ UNCHANGED <<gitVars, cfgVars, phase, errVars, cdVars, wireVars, inVars, panicked,
                   dispVars, stageVars, drainVars, pathsCh, inbox, inboxClosed,
                   completedCh, completedClosed, ghostVars, seqVars, cacheVars, runVars>>

\* format.go:273: pathsCh <- path
ProducerSend ==
    /\ Running
    /\ ppc = "send"
    /\ Len(pathsCh) < ChanCap
    /\ pathsCh' = Append(pathsCh, pNext)
    /\ pNext' = pNext + 1
    /\ ppc' = "walk"
    /\ UNCHANGED <<gitVars, cfgVars, phase, errVars, cdVars, wireVars, inVars, egVars,
                   dispVars, stageVars, drainVars, pathsClosed, inbox, inboxClosed,
                   completedCh, completedClosed, ghostVars, seqVars, cacheVars, runVars>>

\* --------------------------------------------------------------- dispatcher
\* format.go:219-221: the next path of pathsCh and the formatters that want it.
DispatchRecv ==
    /\ Running
    /\ dpc = "range"
    /\ dTodo = {}
    /\ pathsCh # <<>>
    /\ dPath' = Head(pathsCh)
    /\ pathsCh' = Tail(pathsCh)
    /\ dTodo' = { f \in formatters : Wants(f, Head(pathsCh)) }
    /\ UNCHANGED <<gitVars, cfgVars, phase, errVars, cdVars, wireVars, inVars, egVars,
                   prodVars, dpc, stageVars, drainVars, pathsClosed, inbox,
                   inboxClosed, completedCh, completedClosed, ghostVars, seqVars, cacheVars,
                   runVars>>

\* format.go:222 with Formatter.Put (formatter.go:84-86): f.inbox <- path.
\* The formatters are taken in map order.
DispatchPut(f) ==
    /\ Running
    /\ dpc = "range"
    /\ f \in dTodo
    /\ IF inboxClosed[f]
       THEN panicked' = TRUE /\ UNCHANGED <<inbox, dTodo, putSeq>>
       ELSE /\ Len(inbox[f]) < ChanCap
            /\ inbox' = [inbox EXCEPT ![f] = Append(@, dPath)]
            /\ putSeq' = [putSeq EXCEPT ![f] = Append(@, dPath)]
            /\ dTodo' = dTodo \ {f}
            /\ UNCHANGED panicked
    /\ UNCHANGED <<gitVars, cfgVars, phase, errVars, cdVars, wireVars, inVars, cancelled, egErr,
                   prodVars, dpc, dPath, stageVars, drainVars, pathsCh, pathsClosed,
                   inboxClosed, completedCh, completedClosed, ghostVars, outSeq, cacheVars,
                   runVars>>

\* format.go:227-234 with Formatter.Close (formatter.go:162-164): pathsCh is
\* closed and empty, every formatter without a parent is closed.
DispatchClose ==
    /\ Running
    /\ dpc = "range"
    /\ dTodo = {}
    /\ pathsCh = <<>>
    /\ pathsClosed
    /\ inboxClosed' = [f \in formatters |-> inboxClosed[f] \/ parent[f] = NoName]
    /\ dpc' = "await"
    /\ UNCHANGED <<gitVars, cfgVars, phase, errVars, cdVars, wireVars, inVars, egVars,
                   prodVars, dPath, dTodo, stageVars, drainVars, pathsCh, pathsClosed,
                   inbox, completedCh, completedClosed, ghostVars, seqVars, cacheVars, runVars>>

\* The dispatcher closing completedCh without awaiting the formatters.
DispatchWithoutAwait ==
    /\ Running
    /\ dpc = "await"
    /\ completedClosed' = TRUE
    /\ dpc' = "done"
    /\ UNCHANGED <<gitVars, cfgVars, phase, errVars, cdVars, wireVars, inVars, egVars,
                   prodVars, dPath, dTodo, stageVars, drainVars, pathsCh, pathsClosed,
                   inbox, inboxClosed, completedCh, ghostVars, seqVars, cacheVars, runVars>>

\* format.go:236-244: every formatter has completed; close(completedCh).
DispatchAwait ==
    /\ Running
    /\ dpc = "await"
    /\ \A f \in formatters : spc[f] = "done"
    /\ completedClosed' = TRUE
    /\ dpc' = "done"
    /\ UNCHANGED <<gitVars, cfgVars, phase, errVars, cdVars, wireVars, inVars, egVars,
                   prodVars, dPath, dTodo, stageVars, drainVars, pathsCh, pathsClosed,
                   inbox, inboxClosed, completedCh, ghostVars, seqVars, cacheVars, runVars>>

\* ------------------------------------------------------------------ stages
\* The child of a returning formatter is closed once every formatter that
\* forwards to it has returned.
ChildClosedAfter(f) ==
    [g \in formatters |->
        \/ inboxClosed[g]
        \/ /\ g = child[f]
           /\ \A h \in formatters \ {f} : child[h] = g => spc[h] = "done"]

\* Formatter.Run returns err ("none" for nil): the errgroup takes the error
\* and the downstream stage is told that nothing more will come. With the
\* error of apply goes the number of the failed invocation it comes from,
\* 0 when no program was started.
StageReturns(f, err) ==
    /\ spc' = [spc EXCEPT ![f] = "done"]
    /\ sRet' = [sRet EXCEPT ![f] =
                  [err |-> err,
                   inv |-> IF err = "exec" /\ spc[f] = "invokeF"
                           THEN failures'[f] ELSE 0]]
    /\ inboxClosed' = ChildClosedAfter(f)
    /\ egErr' = IF err = "none" THEN egErr ELSE EgErrAfter(err)
    /\ cancelled' = CancelledAfter(err)

\* formatter.go:121-138: apply on the batch b. An empty batch is skipped;
\* with ctx cancelled exec.CommandContext does not start the program and
\* apply fails at once; otherwise the program runs on the batch.
ApplyOutcome(b) ==
    IF b = <<>> THEN "skip" ELSE IF cancelled THEN "fail" ELSE "run"

\* formatter.go:113-118: the code after LOOP. Run's own err is still nil
\* (line 106 declares another err), so apply is called for the final flush.
FinalFlush(f, b) ==
    CASE ApplyOutcome(b) = "skip" ->
            /\ StageReturns(f, "none")
            /\ UNCHANGED <<started, invSeq, retried>>
      [] ApplyOutcome(b) = "fail" ->
            /\ StageReturns(f, "exec")
            /\ UNCHANGED <<started, invSeq, retried>>
      [] OTHER ->
            /\ spc' = [spc EXCEPT ![f] = "invokeF"]
            /\ started' = [started EXCEPT ![f] = @ \cup Range(b)]
            /\ invSeq' = [invSeq EXCEPT ![f] = @ \o b]
            /\ retried' = [retried EXCEPT ![f] = @ \/ failures'[f] > 0]
            /\ UNCHANGED <<inboxClosed, egErr, cancelled, sRet>>

\* formatter.go:92-94: case <-ctx.Done()
StageCancel(f) ==
    /\ Running
    /\ spc[f] = "loop"
    /\ cancelled
    /\ StageReturns(f, "ctx")
    /\ UNCHANGED <<gitVars, cfgVars, phase, errVars, cdVars, wireVars, inVars, panicked,
                   prodVars, dispVars, batch, sIdx, drainVars, pathsCh, pathsClosed,
                   inbox, completedCh, completedClosed, ghostVars, seqVars, cacheVars, runVars>>

\* The receive of the loop with the path put in front of the batch.
StageRecvPrepending(f) ==
    /\ Running
    /\ spc[f] = "loop"
    /\ inbox[f] # <<>>
    /\ LET b == <<Head(inbox[f])>> \o batch[f]
       IN /\ inbox' = [inbox EXCEPT ![f] = Tail(@)]
          /\ batch' = [batch EXCEPT ![f] = b]
          /\ failures' = failures
          /\ IF Len(b) # fBatchSize
             THEN UNCHANGED <<spc, sRet, inboxClosed, egErr, cancelled, started,
                              invSeq, retried>>
             ELSE IF ApplyOutcome(b) = "fail"
             THEN FinalFlush(f, b)
             ELSE /\ spc' = [spc EXCEPT ![f] = "invoke"]
                  /\ started' = [started EXCEPT ![f] = @ \cup Range(b)]
                  /\ invSeq' = [invSeq EXCEPT ![f] = @ \o b]
                  /\ UNCHANGED <<inboxClosed, egErr, cancelled, sRet, retried>>
    /\ UNCHANGED <<gitVars, cfgVars, phase, errVars, cdVars, wireVars, inVars, panicked,
                   prodVars, dispVars, sIdx, drainVars, pathsCh, pathsClosed,
                   completedCh, completedClosed, succeeded, recorded, emitted, seqVars,
                   flushed, cacheVars,
                   runVars>>

\* formatter.go:96-109: a path of the inbox joins the batch; a full batch is
\* applied at once.
StageRecv(f) ==
    /\ Running
    /\ spc[f] = "loop"
    /\ inbox[f] # <<>>
    /\ LET b == Append(batch[f], Head(inbox[f]))
       IN /\ inbox' = [inbox EXCEPT ![f] = Tail(@)]
          /\ batch' = [batch EXCEPT ![f] = b]
          /\ failures' = failures
          /\ IF Len(b) # fBatchSize
             THEN UNCHANGED <<spc, sRet, inboxClosed, egErr, cancelled, started,
                              invSeq, retried>>
             ELSE IF ApplyOutcome(b) = "fail"
             THEN FinalFlush(f, b)
             ELSE /\ spc' = [spc EXCEPT ![f] = "invoke"]
                  /\ started' = [started EXCEPT ![f] = @ \cup Range(b)]
                  /\ invSeq' = [invSeq EXCEPT ![f] = @ \o b]
                  /\ UNCHANGED <<inboxClosed, egErr, cancelled, sRet, retried>>
    /\ UNCHANGED <<gitVars, cfgVars, phase, errVars, cdVars, wireVars, inVars, panicked,
                   prodVars, dispVars, sIdx, drainVars, pathsCh, pathsClosed,
                   completedCh, completedClosed, succeeded, recorded, emitted, seqVars,
                   flushed, cacheVars,
                   runVars>>

\* formatter.go:96-99, 113-118: the inbox is closed and empty.
StageClosed(f) ==
    /\ Running
    /\ spc[f] = "loop"
    /\ inbox[f] = <<>>
    /\ inboxClosed[f]
    /\ failures' = failures
    /\ FinalFlush(f, batch[f])
    /\ UNCHANGED <<gitVars, cfgVars, phase, errVars, cdVars, wireVars, inVars, panicked,
                   prodVars, dispVars, batch, sIdx, drainVars, pathsCh, pathsClosed,
                   inbox, completedCh, completedClosed, succeeded, recorded, emitted, seqVars,
                   flushed,
                   cacheVars, runVars>>

\* formatter.go:136-143: cmd.CombinedOutput() returns. A program that may
\* fail, or one killed because ctx was cancelled, returns an error; the
\* error of the apply in the loop only leaves the loop (line 107).
StageInvoked(f) ==
    /\ Running
    /\ spc[f] \in {"invoke", "invokeF"}
    /\ \E ok \in (IF f \in faulty \/ cancelled THEN BOOLEAN ELSE {TRUE}) :
         IF ok
         THEN /\ succeeded' = [succeeded EXCEPT ![f] = @ \cup Range(batch[f])]
              /\ cache' = IF f \in touching THEN Touched(cache, Range(batch[f]))
                          ELSE cache
              /\ spc' = [spc EXCEPT ![f] = IF @ = "invoke" THEN "emit" ELSE "emitF"]
              /\ sIdx' = [sIdx EXCEPT ![f] = 1]
              /\ UNCHANGED <<inboxClosed, egErr, cancelled, sRet, started, invSeq,
                             failures, retried>>
         ELSE /\ failures' = [failures EXCEPT ![f] = IF @ < 2 THEN @ + 1 ELSE @]
              /\ IF spc[f] = "invoke"
                 THEN FinalFlush(f, batch[f])
                 ELSE StageReturns(f, "exec") /\ UNCHANGED <<started, invSeq, retried>>
              /\ UNCHANGED <<succeeded, cache, sIdx>>
    /\ UNCHANGED <<gitVars, cfgVars, phase, errVars, cdVars, wireVars, inVars, panicked,
                   prodVars, dispVars, batch, drainVars, pathsCh, pathsClosed,
                   inbox, completedCh, completedClosed, recorded, emitted, seqVars, flushed,
                   entrySig, runVars>>

\* apply without the reset of the batch: the paths of a flushed batch stay
\* in f.batch.
AfterEmitKeepingBatch(f) ==
    IF sIdx[f] < Len(batch[f])
    THEN /\ sIdx' = [sIdx EXCEPT ![f] = @ + 1]
         /\ UNCHANGED <<batch, spc, sRet, egErr, cancelled>>
         /\ inboxClosed' = inboxClosed
    ELSE /\ sIdx' = [sIdx EXCEPT ![f] = 1]
         /\ batch' = batch
         /\ IF spc[f] = "emit"
            THEN /\ spc' = [spc EXCEPT ![f] = "loop"]
                 /\ UNCHANGED <<egErr, cancelled, sRet>>
                 /\ inboxClosed' = inboxClosed
            ELSE StageReturns(f, "none")

\* The stage after the path at sIdx has been passed on: the next path, or
\* the batch is reset (formatter.go:157) and apply returns nil.
AfterEmit(f) ==
    IF sIdx[f] < Len(batch[f])
    THEN /\ sIdx' = [sIdx EXCEPT ![f] = @ + 1]
         /\ UNCHANGED <<batch, spc, sRet, egErr, cancelled>>
         /\ inboxClosed' = inboxClosed
    ELSE /\ sIdx' = [sIdx EXCEPT ![f] = 1]
         /\ batch' = [batch EXCEPT ![f] = <<>>]
         /\ IF spc[f] = "emit"
            THEN /\ spc' = [spc EXCEPT ![f] = "loop"]
                 /\ UNCHANGED <<egErr, cancelled, sRet>>
                 /\ inboxClosed' = inboxClosed
            ELSE StageReturns(f, "none")

\* formatter.go:150-154 with the child wired by format.go:137: the path is
\* put into the inbox of the downstream formatter (Formatter.Put).
StageForward(f) ==
    /\ Running
    /\ spc[f] \in {"emit", "emitF"}
    /\ child[f] # NoName
    /\ IF inboxClosed[child[f]]
       THEN /\ panicked' = TRUE
            /\ UNCHANGED <<inbox, stageVars, inboxClosed, egErr, cancelled, seqVars>>
       ELSE /\ Len(inbox[child[f]]) < ChanCap
            /\ inbox' = [inbox EXCEPT ![child[f]] = Append(@, batch[f][sIdx[f]])]
            /\ putSeq' = [putSeq EXCEPT ![child[f]] = Append(@, batch[f][sIdx[f]])]
            /\ outSeq' = [outSeq EXCEPT ![f] = Append(@, batch[f][sIdx[f]])]
            /\ AfterEmit(f)
            /\ UNCHANGED panicked
    /\ UNCHANGED <<gitVars, cfgVars, phase, errVars, cdVars, wireVars, inVars, prodVars,
                   dispVars, drainVars, pathsCh, pathsClosed, completedCh,
                   completedClosed, ghostVars, cacheVars, runVars>>

\* formatter.go:146-149: a formatter without a downstream marks the path as
\* complete, a completion record on completedCh.
StageComplete(f) ==
    /\ Running
    /\ spc[f] \in {"emit", "emitF"}
    /\ child[f] = NoName
    /\ Len(completedCh) < ChanCap
    /\ completedCh' = Append(completedCh, batch[f][sIdx[f]])
    /\ emitted' = [emitted EXCEPT ![batch[f][sIdx[f]]] = @ + 1]
    /\ outSeq' = [outSeq EXCEPT ![f] = Append(@, batch[f][sIdx[f]])]
    /\ AfterEmit(f)
    /\ UNCHANGED <<gitVars, cfgVars, phase, errVars, cdVars, wireVars, inVars, panicked,
                   prodVars, dispVars, drainVars, pathsCh, pathsClosed, inbox,
                   completedClosed, started, invSeq, succeeded, failures, retried, recorded,
                   flushed, putSeq, cacheVars, runVars>>

\* The send of a completion record gives way to ctx.Done(): apply returns
\* the context's error and the stage unwinds.
StageCompleteUnwind(f) ==
    /\ Running
    /\ spc[f] \in {"emit", "emitF"}
    /\ child[f] = NoName
    /\ cancelled
    /\ StageReturns(f, "ctx")
    /\ UNCHANGED <<gitVars, cfgVars, phase, errVars, cdVars, wireVars, inVars, panicked,
                   prodVars, dispVars, batch, sIdx, drainVars, pathsCh, pathsClosed,
                   inbox, completedCh, completedClosed, ghostVars, seqVars, cacheVars, runVars>>

\* ------------------------------------------------------ completion drainer
\* cache.Update(batch): every path of the batch gets an entry that equals
\* the file, written under the current formatter-set signature.
CacheUpdate(c, b) == [p \in Paths |-> IF p \in Range(b) THEN "fresh" ELSE c[p]]
SigUpdate(e, b) == [p \in Paths |-> IF p \in Range(b) THEN fmtSig ELSE e[p]]

\* The number of times p is in the sequence b.
Occurrences(b, p) == Cardinality({ i \in 1..Len(b) : b[i] = p })

\* format.go:172-184: processBatch on the batch b.
processBatch(b) ==
    /\ IF noCache
       THEN /\ changes' = changes + Len(b)
            /\ UNCHANGED <<cache, entrySig, recorded>>
       ELSE /\ changes' = changes + CountChanged(b)
            /\ cache' = CacheUpdate(cache, b)
            /\ entrySig' = SigUpdate(entrySig, b)
            /\ recorded' = recorded \cup Range(b)
    /\ flushed' = [p \in Paths |-> flushed[p] + Occurrences(b, p)]
    /\ cBatch' = <<>>

\* The drainer leaving the loop on ctx.Done() by way of the final flush.
DrainCancelFlushing ==
    /\ Running
    /\ cpc = "loop"
    /\ cancelled
    /\ processBatch(cBatch)
    /\ cpc' = "done"
    /\ cRet' = "ctx"
    /\ egErr' = EgErrAfter("ctx")
    /\ UNCHANGED <<gitVars, cfgVars, phase, errVars, cdVars, wireVars, inVars, cancelled,
                   panicked, prodVars, dispVars, stageVars, chanVars, started, invSeq,
                   succeeded, failures, retried, emitted, seqVars, runVars>>

\* format.go:189-190: case <-ctx.Done()
DrainCancel ==
    /\ Running
    /\ cpc = "loop"
    /\ cancelled
    /\ cpc' = "done"
    /\ cRet' = "ctx"
    /\ egErr' = EgErrAfter("ctx")
    /\ UNCHANGED <<gitVars, cfgVars, phase, errVars, cdVars, wireVars, inVars, cancelled,
                   panicked, prodVars, dispVars, stageVars, cBatch, changes, chanVars,
                   ghostVars, seqVars, cacheVars, runVars>>

\* format.go:191-200: a completion record joins the batch; a full batch is
\* processed.
DrainRecv ==
    /\ Running
    /\ cpc = "loop"
    /\ completedCh # <<>>
    /\ completedCh' = Tail(completedCh)
    /\ LET b == Append(cBatch, Head(completedCh))
       IN IF Len(b) = batchSize
          THEN processBatch(b)
          ELSE /\ cBatch' = b
               /\ UNCHANGED <<changes, cache, entrySig, recorded, flushed>>
    /\ UNCHANGED <<gitVars, cfgVars, phase, errVars, cdVars, wireVars, inVars, egVars,
                   prodVars, dispVars, stageVars, cpc, cRet, pathsCh, pathsClosed, inbox,
                   inboxClosed, completedClosed, started, invSeq, succeeded, failures,
                   retried, emitted, seqVars, runVars>>

\* The drainer leaving the loop on the closure of completedCh without the
\* final flush of lines 204-207.
DrainClosedWithoutFlush ==
    /\ Running
    /\ cpc = "loop"
    /\ completedCh = <<>>
    /\ completedClosed
    /\ UNCHANGED <<cBatch, changes, cache, entrySig, recorded, flushed>>
    /\ cpc' = "done"
    /\ IF failOnChange /\ changes' # 0
       THEN /\ cRet' = "failonchange"
            /\ egErr' = EgErrAfter("failonchange")
            /\ cancelled' = TRUE
       ELSE /\ cRet' = "none"
            /\ UNCHANGED <<egErr, cancelled>>
    /\ UNCHANGED <<gitVars, cfgVars, phase, errVars, cdVars, wireVars, inVars, panicked,
                   prodVars, dispVars, stageVars, chanVars, started, invSeq, succeeded,
                   failures, retried, emitted, seqVars, runVars>>

\* format.go:192-194, 204-214: completedCh is closed and empty: the final
\* flush and the fail-on-change decision.
DrainClosed ==
    /\ Running
    /\ cpc = "loop"
    /\ completedCh = <<>>
    /\ completedClosed
    /\ processBatch(cBatch)
    /\ cpc' = "done"
    /\ IF failOnChange /\ changes' # 0
       THEN /\ cRet' = "failonchange"
            /\ egErr' = EgErrAfter("failonchange")
            /\ cancelled' = TRUE
       ELSE /\ cRet' = "none"
            /\ UNCHANGED <<egErr, cancelled>>
    /\ UNCHANGED <<gitVars, cfgVars, phase, errVars, cdVars, wireVars, inVars, panicked,
                   prodVars, dispVars, stageVars, chanVars, started, invSeq, succeeded,
                   failures, retried, emitted, seqVars, runVars>>

\* --------------------------------------------------- Format.Run: the return
AllTasksDone ==
    /\ ppc = "done"
    /\ dpc = "done"
    /\ cpc = "done"
    /\ \A f \in formatters : spc[f] = "done"

\* format.go:291 with the deferred cancel() of line 41: eg.Wait() returns
\* the first error once every task has returned.
RunReturn ==
    /\ Running
    /\ AllTasksDone
    /\ phase' = "returned"
    /\ runErr' = egErr
    /\ UNCHANGED errNames
    /\ cancelled' = TRUE
    /\ UNCHANGED <<gitVars, cfgVars, cdVars, wireVars, inVars, egErr, panicked, prodVars,
                   dispVars, stageVars, drainVars, chanVars, ghostVars, seqVars, cacheVars,
                   runVars>>

NextTasks ==
    \/ StartTasks
    \/ ProducerStart
    \/ ProducerWalk
    \/ ProducerSend
    \/ DispatchRecv
    \/ \E f \in formatters : DispatchPut(f)
    \/ DispatchClose
    \/ DispatchAwait
    \/ \E f \in formatters : StageCancel(f)
    \/ \E f \in formatters : StageRecv(f)
    \/ \E f \in formatters : StageClosed(f)
    \/ \E f \in formatters : StageInvoked(f)
    \/ \E f \in formatters : StageForward(f)
    \/ \E f \in formatters : StageComplete(f)
    \/ \E f \in formatters : StageCompleteUnwind(f)
    \/ DrainCancel
    \/ DrainRecv
    \/ DrainClosed
    \/ RunReturn

\* ------------------------------------------------------- run after run
\* The files of the tree the run found with an entry that equals the file
\* but was written under another formatter-set signature.
BustedPaths ==
    IF ~atOpen.open THEN {}
    ELSE { p \in (1..treeSize) \ irregular :
             atOpen.cache[p] = "fresh" /\ atOpen.sig[p] # fmtSig }
SignatureChanged == BustedPaths # {}

\* Format.Run is called again on the same tree and cache, without the cache
\* flags. Between the two runs a formatter may have changed (another
\* formatter-set signature) and files may have been edited.
NewRun ==
    /\ phase = "returned"
    /\ run < MaxRuns
    /\ run' = run + 1
    /\ \E sigChanged \in BOOLEAN, edited \in {{}, {1}} :
         /\ fmtSig' = IF sigChanged THEN fmtSig + 1 ELSE fmtSig
         /\ cache' = Touched(cache, edited)
         /\ prev' = [ok |-> runErr = "none", cached |-> ~noCache,
                     cleared |-> clearCache, bust |-> SignatureChanged,
                     clean |-> \A f \in formatters : failures[f] = 0,
                     sigChanged |-> sigChanged, edited |-> edited]
    /\ atOpen' = NotOpen
    /\ clearCache' = FALSE
    /\ noCache' = FALSE
    /\ phase' = "filter"
    /\ runErr' = "none"
    /\ errNames' = <<>>
    /\ cdVisited' = {}
    /\ cdName' = NoName
    /\ cdCur' = NoName
    /\ history' = <<>>
    /\ historyTurn' = 0
    /\ formatters' = {}
    /\ child' = <<>>
    /\ parent' = <<>>
    /\ cancelled' = FALSE
    /\ egErr' = "none"
    /\ panicked' = FALSE
    /\ pathsCh' = <<>>
    /\ pathsClosed' = FALSE
    /\ ppc' = "idle"
    /\ pNext' = 1
    /\ dpc' = "idle"
    /\ dPath' = 0
    /\ dTodo' = {}
    /\ inbox' = <<>>
    /\ inboxClosed' = <<>>
    /\ batch' = <<>>
    /\ spc' = <<>>
    /\ sIdx' = <<>>
    /\ sRet' = <<>>
    /\ completedCh' = <<>>
    /\ completedClosed' = FALSE
    /\ cpc' = "idle"
    /\ cBatch' = <<>>
    /\ changes' = 0
    /\ cRet' = "running"
    /\ started' = <<>>
    /\ invSeq' = <<>>
    /\ succeeded' = <<>>
    /\ failures' = <<>>
    /\ retried' = <<>>
    /\ recorded' = {}
    /\ emitted' = [p \in Paths |-> 0]
    /\ flushed' = [p \in Paths |-> 0]
    /\ putSeq' = <<>>
    /\ outSeq' = <<>>
    /\ UNCHANGED <<gitVars, cfgVars, includes, excludes, faulty, touching, walkFault,
                   treeSize, irregular, failOnChange, batchSize, fBatchSize,
                   entrySig>>

NextGraph ==
    \/ CheckFilter
    \/ CheckDependencies
    \/ CycleBegin
    \/ CycleStep
    \/ CycleEnd
    \/ InitFormatters
    \/ WireFormatters

SpecGraph == InitGraph /\ [][NextGraph]_vars

\* Validation is straight-line code of one goroutine: it keeps running.
FairSpecGraph == SpecGraph /\ WF_vars(NextGraph)

\* One run of Format.Run, from the configuration to the return.
Next == NextGraph \/ NextTasks

Spec == Init /\ [][Next]_vars

\* Runs that follow each other on one tree. The first of them finds the
\* cache as earlier runs have left it: per path of the tree no entry, or an
\* entry that equals the file, written under the current formatter-set
\* signature or under an earlier one.
CacheStates ==
    { c \in [Paths -> {"none", "fresh"}] :
        \A p \in Paths : p > NumPaths - 1 => c[p] = "none" }
SigStates(c) ==
    { e \in [Paths -> 0..1] : \A p \in Paths : c[p] = "none" => e[p] = 0 }

InitCache ==
    /\ \E c \in RunConfigs : configured = c.names /\ before = c.before
    /\ filterNames = {}
    /\ missingCmd = {}
    /\ allowMissing = FALSE
    /\ includes = [f \in configured |-> IF f = 1 THEN {GlobOne} ELSE {GlobAll}]
    /\ excludes = [f \in configured |-> {}]
    /\ faulty \in {{}, {2}}
    /\ touching = {1}
    /\ walkFault = "none"
    /\ treeSize = NumPaths
    /\ irregular = {NumPaths}
    /\ clearCache \in BOOLEAN
    /\ noCache \in BOOLEAN
    /\ failOnChange = FALSE
    /\ batchSize = BatchSize
    /\ fBatchSize = BatchSize
    /\ InitGraphState
    /\ NoGitReader
    /\ InitTaskState
    /\ cache \in CacheStates
    /\ entrySig \in SigStates(cache)
    /\ fmtSig = 1
    /\ run = 1
    /\ prev = "first"
    /\ atOpen = NotOpen

\* One run with formatters of every kind of pattern list: no include
\* pattern, one, several, and exclude patterns that overlap the includes;
\* with and without the cache, and with completion batches of several
\* capacities, so that some get full and some are flushed at the end only.
InitMatch ==
    /\ \E c \in RunConfigs : configured = c.names /\ before = c.before
    /\ filterNames = {}
    /\ missingCmd = {}
    /\ allowMissing = FALSE
    /\ includes \in [configured -> {{}, {GlobOne}, {GlobOne, GlobRest}}]
    /\ excludes \in [configured -> {{}, {GlobOne}}]
    /\ faulty \in {{}, {2}}
    /\ touching = {}
    /\ walkFault \in {"none", "create", "walk"}
    /\ treeSize = NumPaths - 1
    /\ irregular = {}
    /\ clearCache = FALSE
    /\ noCache \in BOOLEAN
    /\ failOnChange = FALSE
    /\ batchSize \in BatchSize..(BatchSize + 2)
    /\ fBatchSize = BatchSize
    /\ InitGraphState
    /\ NoGitReader
    /\ InitTaskState
    /\ InitCacheState

SpecMatch == InitMatch /\ [][Next]_vars

\* One run with formatter batches of one path and of several: a batch that
\* gets full is applied in the loop, what is left of the last one by the
\* final flush. A program may fail, and the drainer's batch may hold a
\* record when the run is cancelled.
InitBatch ==
    /\ \E c \in RunConfigs : configured = c.names /\ before = c.before
    /\ filterNames = {}
    /\ missingCmd = {}
    /\ allowMissing = FALSE
    /\ includes = [f \in configured |-> {GlobAll}]
    /\ excludes = [f \in configured |-> {}]
    /\ faulty \in {{}, {1}, {2}}
    /\ touching = {}
    /\ walkFault = "none"
    /\ treeSize = NumPaths
    /\ irregular = {}
    /\ clearCache = FALSE
    /\ noCache = FALSE
    /\ failOnChange = FALSE
    /\ batchSize \in BatchSize..(BatchSize + 1)
    /\ fBatchSize \in BatchSize..(BatchSize + 1)
    /\ InitGraphState
    /\ NoGitReader
    /\ InitTaskState
    /\ InitCacheState

SpecBatch == InitBatch /\ [][Next]_vars

\* One run for every configuration of two or three formatters, with and
\* without a formatter filter, a command that cannot be located and the
\* allow-missing policy. The cache holds an entry of an earlier run.
ConfigsOfSeveral == { c \in AllConfigs : Cardinality(c.names) >= 2 }

InitConfig ==
    /\ \E c \in ConfigsOfSeveral : configured = c.names /\ before = c.before
    /\ filterNames \in { S \in SUBSET Universe : Cardinality(S) <= 1 }
    /\ missingCmd \in { S \in SUBSET configured : Cardinality(S) <= 1 }
    /\ allowMissing \in BOOLEAN
    /\ includes = [f \in configured |-> {GlobAll}]
    /\ excludes = [f \in configured |-> {}]
    /\ faulty \in {{}, {1}}
    /\ touching = {}
    /\ walkFault = "none"
    /\ treeSize = 1
    /\ irregular = {}
    /\ clearCache = FALSE
    /\ noCache = FALSE
    /\ failOnChange = FALSE
    /\ batchSize = BatchSize
    /\ fBatchSize = BatchSize
    /\ InitGraphState
    /\ NoGitReader
    /\ InitTaskState
    /\ cache = [p \in Paths |-> IF p = NumPaths THEN "fresh" ELSE "none"]
    /\ entrySig = [p \in Paths |-> 0]
    /\ fmtSig = 0
    /\ run = 1
    /\ prev = "first"
    /\ atOpen = NotOpen

SpecConfig == InitConfig /\ [][Next]_vars

\* Every task is a goroutine that runs while it is not blocked, and the
\* validation before them is straight-line code.
FairSpecConfig == SpecConfig /\ WF_vars(Next)

NextCache == Next \/ NewRun

SpecCache == InitCache /\ [][NextCache]_vars

\* ------------------------------------------------------------ walk/git.go
\* What os.Stat finds of a listed path: the file, an error for which
\* os.IsNotExist holds, or another error.
StatResults == {"ok", "notexist", "error"}

Listings == UNION { [1..k -> StatResults] : k \in 0..MaxListing }

\* g.stats.Add(stats.Traversed, n). The stats package is not part of the
\* sources at hand: the counter is modelled from the design document, as a
\* counter that grows by what is added to it.
StatsAdd(c, k) == c + k

\* Everything Format.Run works on: a GitReader touches none of it.
pipeVars == <<cfgVars, phase, errVars, cdVars, wireVars, restVars>>

\* The listed paths the scanner holds and Scan has not returned.
Buffered == written - scanned

\* A return that leaves the counter alone.
ReadReturnsUncounted(k, err) ==
    /\ rpc' = "idle"
    /\ rN' = k
    /\ rErr' = err
    /\ statsTraversed' = statsTraversed

\* The deferred function of Read (git.go:31-33) and the return of n and err.
ReadReturns(k, err) ==
    /\ rpc' = "idle"
    /\ rN' = k
    /\ rErr' = err
    /\ statsTraversed' = StatsAdd(statsTraversed, k)

\* Read is called with a files slice of length k (git.go:29-51): the first
\* call creates the pipe, starts the command in the errgroup and creates
\* the scanner. The caller calls Read again no earlier than the call before
\* has returned, and not after Close.
ReadCall(k) ==
    /\ rpc = "idle"
    /\ closePc = "no"
    /\ rpc' = "loop"
    /\ rLen' = k
    /\ rN' = 0
    /\ rFiles' = <<>>
    /\ rErr' = "nil"
    /\ IF scanner = "nil"
       THEN /\ scanner' = "set"
            /\ cmdRun' = "running"
            /\ starts' = starts + 1
       ELSE UNCHANGED <<scanner, cmdRun, starts>>
    /\ UNCHANGED <<listing, written, scanned, ctxDone, statsTraversed, handed, closePc,
                   pipeVars>>

\* The loop condition fails (git.go:55, 95): files is full.
ReadFull ==
    /\ rpc = "loop"
    /\ rN >= rLen
    /\ ReadReturns(rN, rErr)
    /\ UNCHANGED <<listing, scanner, cmdRun, starts, written, scanned, ctxDone, rLen,
                   rFiles, handed, closePc, pipeVars>>

\* The select finds ctx.Done() closed (git.go:58-59).
ReadCancelled ==
    /\ rpc = "loop"
    /\ rN < rLen
    /\ ctxDone
    /\ ReadReturns(rN, "ctx")
    /\ UNCHANGED <<listing, scanner, cmdRun, starts, written, scanned, ctxDone, rLen,
                   rFiles, handed, closePc, pipeVars>>

\* The select takes its default case (git.go:61-63): Scan is called.
ReadDefault ==
    /\ rpc = "loop"
    /\ rN < rLen
    /\ ~ctxDone
    /\ rpc' = "scan"
    /\ UNCHANGED <<listing, scanner, cmdRun, starts, written, scanned, ctxDone, rLen, rN,
                   rFiles, rErr, statsTraversed, handed, closePc, pipeVars>>

\* A Read that takes a path that is gone for a failure of os.Stat.
ReadPathFailingOnRemoved ==
    /\ rpc = "scan"
    /\ Buffered > 0
    /\ scanned' = scanned + 1
    /\ LET p == scanned + 1
       IN CASE listing[p] \in {"notexist", "error"} ->
                 /\ ReadReturns(rN, "stat")
                 /\ UNCHANGED <<rFiles, handed>>
            [] listing[p] = "ok" ->
                 /\ rpc' = "loop"
                 /\ rFiles' = Append(rFiles, p)
                 /\ rN' = rN + 1
                 /\ handed' = Append(handed, p)
                 /\ UNCHANGED <<rErr, statsTraversed>>
    /\ UNCHANGED <<listing, scanner, cmdRun, starts, written, ctxDone, rLen, closePc,
                   pipeVars>>

\* Scan returns the next listed path and os.Stat is asked about it
\* (git.go:63-85): a path that is gone is passed over, another failure ends
\* Read, and the file found is put into files.
ReadPath ==
    /\ rpc = "scan"
    /\ Buffered > 0
    /\ scanned' = scanned + 1
    /\ LET p == scanned + 1
       IN CASE listing[p] = "notexist" ->
                 /\ rpc' = "loop"
                 /\ UNCHANGED <<rN, rFiles, rErr, statsTraversed, handed>>
            [] listing[p] = "error" ->
                 /\ ReadReturns(rN, "stat")
                 /\ UNCHANGED <<rFiles, handed>>
            [] listing[p] = "ok" ->
                 /\ rpc' = "loop"
                 /\ rFiles' = Append(rFiles, p)
                 /\ rN' = rN + 1
                 /\ handed' = Append(handed, p)
                 /\ UNCHANGED <<rErr, statsTraversed>>
    /\ UNCHANGED <<listing, scanner, cmdRun, starts, written, ctxDone, rLen, closePc,
                   pipeVars>>

\* Scan returns false (git.go:86-91, 95): the buffer is empty and the write
\* end of the pipe is closed. Whatever error the command ended with, Read
\* does not look at scanner.Err().
ReadEOF ==
    /\ rpc = "scan"
    /\ Buffered = 0
    /\ cmdRun = "returned"
    /\ ReadReturns(rN, "EOF")
    /\ UNCHANGED <<listing, scanner, cmdRun, starts, written, scanned, ctxDone, rLen,
                   rFiles, handed, closePc, pipeVars>>

\* The pipe of git.go:37: a Write of the command's output returns only when
\* a reader has taken all of it, and the only reader is the scanner inside
\* Scan, which reads when its buffer holds no path. How much one read takes
\* depends on the sizes of the command's writes and of the buffer.
PipeTransfer(k) ==
    /\ rpc = "scan"
    /\ Buffered = 0
    /\ cmdRun = "running"
    /\ k >= 1
    /\ written + k <= Len(listing)
    /\ written' = written + k
    /\ UNCHANGED <<listing, scanner, cmdRun, starts, scanned, ctxDone, rpc, rLen, rN,
                   rFiles, rErr, statsTraversed, handed, closePc, pipeVars>>

\* The goroutine of git.go:45-47: cmd.Run returns when the command has
\* exited and all its output has been written to the pipe (the command has
\* no deadline and no context); the write end is closed then.
CmdReturn ==
    /\ cmdRun = "running"
    /\ written = Len(listing)
    /\ cmdRun' = "returned"
    /\ UNCHANGED <<listing, scanner, starts, written, scanned, ctxDone, rpc, rLen, rN,
                   rFiles, rErr, statsTraversed, handed, closePc, pipeVars>>

\* The caller's context is cancelled.
CtxCancel ==
    /\ ~ctxDone
    /\ ctxDone' = TRUE
    /\ UNCHANGED <<listing, scanner, cmdRun, starts, written, scanned, rpc, rLen, rN,
                   rFiles, rErr, statsTraversed, handed, closePc, pipeVars>>

\* Close is called (git.go:98-99), between two calls of Read or after the
\* last one.
CloseCall ==
    /\ rpc = "idle"
    /\ closePc = "no"
    /\ closePc' = "wait"
    /\ UNCHANGED <<listing, scanner, cmdRun, starts, written, scanned, ctxDone, rpc, rLen,
                   rN, rFiles, rErr, statsTraversed, handed, pipeVars>>

\* g.eg.Wait() returns (git.go:99): the errgroup has no goroutine, or the
\* one it has has returned.
CloseReturn ==
    /\ closePc = "wait"
    /\ cmdRun # "running"
    /\ closePc' = "returned"
    /\ UNCHANGED <<listing, scanner, cmdRun, starts, written, scanned, ctxDone, rpc, rLen,
                   rN, rFiles, rErr, statsTraversed, handed, pipeVars>>

\* The steps of Read between its call and its return.
ReadStep ==
    \/ ReadFull
    \/ ReadCancelled
    \/ ReadDefault
    \/ ReadPath
    \/ ReadEOF

NextGit ==
    \/ \E k \in 0..MaxFiles : ReadCall(k)
    \/ ReadStep
    \/ \E k \in 1..ScanAhead : PipeTransfer(k)
    \/ CmdReturn
    \/ CtxCancel
    \/ CloseCall
    \/ CloseReturn

\* A GitReader over every listing of up to MaxListing paths, each of them
\* there, gone or not to be looked at. No Format.Run takes part.
InitGit ==
    /\ listing \in Listings
    /\ NewGitReader
    /\ configured = {}
    /\ before = <<>>
    /\ filterNames = {}
    /\ missingCmd = {}
    /\ allowMissing = FALSE
    /\ includes = <<>>
    /\ excludes = <<>>
    /\ faulty = {}
    /\ touching = {}
    /\ walkFault = "none"
    /\ treeSize = 0
    /\ irregular = {}
    /\ clearCache = FALSE
    /\ noCache = FALSE
    /\ failOnChange = FALSE
    /\ batchSize = BatchSize
    /\ fBatchSize = BatchSize
    /\ phase = "filter"
    /\ runErr = "none"
    /\ errNames = <<>>
    /\ cdVisited = {}
    /\ cdName = NoName
    /\ cdCur = NoName
    /\ history = <<>>
    /\ historyTurn = 0
    /\ formatters = {}
    /\ child = <<>>
    /\ parent = <<>>
    /\ InitTaskState
    /\ InitCacheState

SpecGit == InitGit /\ [][NextGit]_vars

\* Read is straight-line code of the caller's goroutine, the command and
\* the goroutine that waits for it run on their own, and so does Close once
\* it is called. Whether the caller calls Read again, cancels or closes is
\* up to the caller.
FairSpecGit ==
    /\ SpecGit
    /\ WF_vars(ReadStep)
    /\ WF_vars(\E k \in 1..ScanAhead : PipeTransfer(k))
    /\ WF_vars(CmdReturn)
    /\ WF_vars(CloseReturn)

\* ------------------------------------------------------------ claims C1, C2
\* The formatters on the cycle through n.
CycleThrough(b, n) == { Follow(b, n, k) : k \in 0..NumNames }

\* The run failed with the cycle error and the error lists every name on the
\* cycle it found.
CycleReported ==
    /\ phase = "returned"
    /\ runErr = "cycle"
    /\ OnCycle(before, cdName)
    /\ CycleThrough(before, cdName) \subseteq Range(history)

\* C1: whenever cycle detection is run on a configuration whose runs-before
\* edges contain a cycle, Format.Run fails with the cycle error, and the error
\* lists every formatter name on the cycle.
C1_CycleAlwaysReported ==
    (phase = "cycle" /\ CycleNames(before) # {}) ~> CycleReported

\* C2: graph validation terminates for every configuration and every visiting
\* order: it ends with a wired graph or with an error.
C2_ValidationTerminates == <>(phase \in {"wired", "returned"})

\* What does hold of the detection: an error it reports names a real cycle
\* in full, and a configuration that passes has no cycle.
CycleErrorIsSound ==
    /\ (phase = "returned" /\ runErr = "cycle") => CycleReported
    /\ phase \in {"init", "wire", "wired"} => CycleNames(before) = {}

\* The walk that never ends: it started off the cycle it has entered.
WalkDiverges ==
    /\ phase = "cycle"
    /\ cdCur # NoName
    /\ ~OnCycle(before, cdName)
    /\ OnCycle(before, cdCur)
    /\ Len(history) = MaxHistory

\* ------------------------------------------------------- claims C3 to C7
\* The run is in progress and no task can take a step: the tasks that have
\* not returned are blocked for good and eg.Wait() never returns.
Stuck == phase = "running" /\ ~panicked /\ ~ENABLED NextTasks

InvocationFailed == \E f \in DOMAIN failures : failures[f] > 0

\* C3: once a formatter invocation has failed, no task stays blocked for
\* good, and when Format.Run returns it returns that failure.
C3_FailureEndsRun ==
    InvocationFailed =>
        /\ ~Stuck
        /\ phase = "returned" => runErr = "exec"

SourceFailed == ppc = "done" /\ egErr \in {"walker", "pathnotfound"}

\* C4: once the path source has failed, the run does not hang, Format.Run
\* returns the error of the source, and no formatter program has been
\* invoked.
C4_SourceFailureReturned ==
    SourceFailed =>
        /\ ~Stuck
        /\ phase = "returned" => runErr = egErr
        /\ \A f \in DOMAIN started : started[f] = {}

\* C5: a stage whose invocation failed makes no further invocation.
C5_NoRetry == \A f \in DOMAIN retried : ~retried[f]

InFlight(p) ==
    \E f \in DOMAIN inbox : p \in Range(inbox[f]) \/ p \in Range(batch[f])

\* C6: a path passed to the cache update has completed a successful
\* invocation of a stage without a downstream, and after a failed run no
\* recorded path is still queued or batched in a stage.
C6_RecordedAfterTerminal ==
    /\ \A p \in recorded :
          \E f \in DOMAIN succeeded : child[f] = NoName /\ p \in succeeded[f]
    /\ (phase = "returned" /\ runErr # "none") =>
          \A p \in recorded : ~InFlight(p)

\* C7: when A runs before B and both want a path, B's program is not
\* started on the path before A's invocation on it has succeeded.
C7_UpstreamFirst ==
    \A a \in DOMAIN started : \A b \in DOMAIN started :
        before[a] = b =>
            \A p \in started[b] :
                (Wants(a, p) /\ Wants(b, p)) => p \in succeeded[a]

\* The half of C6 that holds: a recorded path has completed a successful
\* invocation of a stage without a downstream.
RecordedOnlyAfterSuccess ==
    \A p \in recorded :
        \E f \in DOMAIN succeeded : child[f] = NoName /\ p \in succeeded[f]

\* ------------------------------------------------------ claims C8 to C10
RunSucceeded == phase = "returned" /\ runErr = "none"
\* The regular files of the tree.
RegularFiles == (1..treeSize) \ irregular
NothingFormatted == \A f \in DOMAIN started : started[f] = {}
Formatted(p) == \E f \in DOMAIN started : p \in started[f]
WantedBySome(p) == \E f \in formatters : Wants(f, p)

\* The current run follows a successful run that used the cache; since then
\* no file and no formatter has changed, and the run has no cache flag.
FollowsSuccess ==
    /\ run > 1
    /\ prev.ok
    /\ prev.cached
    /\ ~prev.sigChanged
    /\ prev.edited = {}
    /\ ~clearCache
    /\ ~noCache

\* C8: a run that follows a successful run on the unchanged tree with the
\* same formatter-set signature invokes no formatter on any file.
C8_SecondRunFormatsNothing == FollowsSuccess => NothingFormatted

\* C9: a successful run that found entries of another formatter-set
\* signature for unchanged files has formatted every such file a formatter
\* wants, and the run that follows it formats nothing.
C9_SignatureChangeReformats ==
    /\ (RunSucceeded /\ ~noCache) =>
          \A p \in BustedPaths : WantedBySome(p) => Formatted(p)
    /\ (FollowsSuccess /\ prev.bust) => NothingFormatted

\* C10: a successful run with the clear-cache request has formatted every
\* traversed path a formatter wants, whatever the cache held before, and the
\* run that follows it without the request formats nothing.
C10_ClearCacheReformats ==
    /\ (RunSucceeded /\ clearCache) =>
          \A p \in RegularFiles : WantedBySome(p) => Formatted(p)
    /\ (FollowsSuccess /\ prev.cleared) => NothingFormatted

\* What does hold of the cache: the three properties above for runs in which
\* no invocation of a formatter program failed.
IdempotentWithoutFailure ==
    (FollowsSuccess /\ prev.clean) => NothingFormatted

ReformatsWithoutFailure ==
    (RunSucceeded /\ ~InvocationFailed) =>
        /\ ~noCache => \A p \in BustedPaths : WantedBySome(p) => Formatted(p)
        /\ clearCache => \A p \in RegularFiles : WantedBySome(p) => Formatted(p)

\* ------------------------------------------------------------ claim C11
\* The completion drainer has read completedCh to its closure.
DrainedToClosure == cpc = "done" /\ completedClosed /\ completedCh = <<>>

\* C11: Format.Run returns ErrFailOnChange exactly when the fail-on-change
\* policy is on, every formatter invocation succeeded, the completion
\* channel was drained to its closure and the changed count is not zero.
C11_FailOnChangeExactly ==
    phase = "returned" =>
        (runErr = "failonchange"
            <=> /\ failOnChange
                /\ ~InvocationFailed
                /\ DrainedToClosure
                /\ changes # 0)

\* What does hold of the policy: the error is returned exactly when the
\* policy is on, every stage returned nil, the channel was drained to its
\* closure and the count is not zero.
FailOnChangeAfterNilStages ==
    phase = "returned" =>
        (runErr = "failonchange"
            <=> /\ failOnChange
                /\ egErr \notin {"exec", "ctx", "walker", "pathnotfound"}
                /\ DrainedToClosure
                /\ changes # 0)

\* ------------------------------------------------------------ claim C12
\* The paths a formatter is said to want: no exclude pattern matches, and an
\* include pattern matches or the formatter has no include pattern.
WantedAsDocumented(f, path) ==
    /\ \A g \in excludes[f] : path \notin g
    /\ \/ \E g \in includes[f] : path \in g
       \/ includes[f] = {}

\* C12: an initialised formatter wants a path if and only if no exclude
\* pattern matches it and an include pattern matches it or the formatter
\* has no include pattern.
C12_WantsAsDocumented ==
    \A f \in formatters : \A path \in Paths :
        Wants(f, path) <=> WantedAsDocumented(f, path)

\* What does hold of Wants: exclude dominates include, and the paths the
\* dispatcher hands to a formatter match one of its include patterns.
ExcludeDominates ==
    /\ \A f \in formatters : \A path \in Paths :
          (\E g \in excludes[f] : path \in g) => ~Wants(f, path)
    /\ \A f \in dTodo : \E g \in includes[f] : dPath \in g

\* ------------------------------------------------------------ claim C13
\* Formatters a and b have no runs-before relation to each other.
Unrelated(a, b) == before[a] # b /\ before[b] # a

\* C13: formatters without a runs-before relation that want the same file
\* are applied to it in ascending order of their names (the code has no
\* priority, every formatter has the same): the program of the later one is
\* not started on the file before the earlier one has succeeded on it.
C13_DeterministicOrder ==
    \A a \in DOMAIN started : \A b \in DOMAIN started :
        (a < b /\ Unrelated(a, b)) =>
            \A p \in started[b] : Wants(a, p) => p \in succeeded[a]

\* ------------------------------------------------- claims C14 to C17
\* The configuration failures, as the configuration shows them.
UnknownFilterName == ~(filterNames \subseteq configured)
BrokenDependency ==
    \E n \in configured : before[n] # NoName /\ before[n] \notin configured
HasCycle == CycleNames(before) # {}
\* The formatters the filter selects.
Selected == { n \in configured : filterNames = {} \/ n \in filterNames }
MissingSelected == Selected \cap missingCmd # {}
ConfigurationFails ==
    \/ UnknownFilterName
    \/ BrokenDependency
    \/ HasCycle
    \/ ~allowMissing /\ MissingSelected
PassesValidation == ~UnknownFilterName /\ ~BrokenDependency /\ ~HasCycle

ConfigErrors == {"filter", "broken", "cycle", "notfound"}

\* No task has been started, no program invoked, the cache is not open and
\* nothing has been written to it.
NothingStarted ==
    /\ phase # "running"
    /\ ppc = "idle" /\ dpc = "idle" /\ cpc = "idle"
    /\ spc = <<>>
    /\ started = <<>>
    /\ ~atOpen.open
    /\ recorded = {}

NamesBoth ==
    /\ runErr = "broken"
    /\ Len(errNames) = 2
    /\ errNames[1] \in configured
    /\ errNames[2] = before[errNames[1]]
    /\ errNames[2] \notin configured

\* C15: a configuration in which a runs-before field names a formatter that
\* is not configured makes Format.Run fail with an error naming both
\* formatters, whatever the filter and the missing commands are.
C15_BrokenDependencyReported ==
    BrokenDependency =>
        /\ phase \in {"filter", "deps", "returned"}
        /\ phase = "returned" => NamesBoth

\* C15 as amended: the same for every run whose filter names are all
\* configured (the filter names are checked first).
C15_BrokenDependencyAfterFilterCheck ==
    (BrokenDependency /\ ~UnknownFilterName) =>
        /\ phase \in {"filter", "deps", "returned"}
        /\ phase = "returned" => NamesBoth

\* The broken dependency of a formatter the filter does not select, and one
\* of a formatter without a command, has been reported.
C15_Witness ==
    /\ phase = "returned"
    /\ NamesBoth
    /\ filterNames # {}
    /\ errNames[1] \notin filterNames
    /\ missingCmd # {}

\* A formatter without a command is in no state a formatter of the run: it
\* is not initialised, has no inbox and no invocation.
MissingDropped ==
    \A f \in missingCmd :
        /\ f \notin formatters
        /\ f \notin DOMAIN inbox
        /\ f \notin DOMAIN started

\* C16: with the allow-missing policy off, a configured formatter without a
\* command makes the run fail with the command-not-found error; with the
\* policy on the formatter is dropped, receives no path and the run
\* succeeds with the remaining formatters.
C16_MissingCommand ==
    /\ (missingCmd # {} /\ ~allowMissing /\ phase = "returned") =>
          runErr = "notfound"
    /\ allowMissing =>
          /\ MissingDropped
          /\ (phase = "returned" /\ ~InvocationFailed) => runErr = "none"

\* C16 as amended: with the policy off, a formatter without a command that
\* the filter selects makes a run that passes validation fail with the
\* command-not-found error, and one the filter does not select is skipped
\* without an error; with the policy on the formatter is dropped, receives
\* no path, and a run that passes validation and has no failing invocation
\* succeeds with the remaining formatters.
C16_MissingSelectedCommand ==
    /\ (MissingSelected /\ ~allowMissing /\ PassesValidation) =>
          /\ phase \notin {"wire", "wired", "running"}
          /\ phase = "returned" =>
                (runErr = "notfound" /\ errNames[1] \in Selected \cap missingCmd)
    /\ (~MissingSelected \/ allowMissing) => runErr # "notfound"
    /\ MissingDropped
    /\ phase = "running" => DOMAIN spc = Selected \ missingCmd
    /\ (allowMissing /\ PassesValidation /\ phase = "returned"
          /\ ~InvocationFailed) => runErr = "none"

\* A run under the policy that dropped a formatter and formatted with
\* another one.
C16_Witness ==
    /\ allowMissing
    /\ MissingSelected
    /\ phase = "returned"
    /\ runErr = "none"
    /\ \E f \in DOMAIN started : started[f] # {}

\* C17: a filter name that is not configured makes the run fail; otherwise
\* only the formatters the filter names are initialised, started and given
\* paths, every invocation is on a file a selected formatter wants, and an
\* empty filter selects every configured formatter.
C17_FilterSelects ==
    /\ UnknownFilterName =>
          /\ phase \in {"filter", "returned"}
          /\ phase = "returned" =>
                (runErr = "filter" /\ errNames[1] \in filterNames \ configured)
    /\ ~UnknownFilterName => runErr # "filter"
    /\ formatters \subseteq Selected
    /\ phase \in {"wire", "wired", "running"} =>
          formatters = Selected \ missingCmd
    /\ filterNames = {} => Selected = configured
    /\ DOMAIN spc \subseteq Selected
    /\ DOMAIN inbox \subseteq Selected
    /\ dTodo \subseteq Selected
    /\ \A f \in DOMAIN started :
          /\ f \in Selected
          /\ \A p \in started[f] : \E g \in Selected : Wants(g, p)

\* A run with a filter that left a configured formatter out and formatted
\* with the one it names.
C17_Witness ==
    /\ filterNames # {}
    /\ Selected # configured
    /\ phase = "returned"
    /\ runErr = "none"
    /\ \E f \in DOMAIN started : started[f] # {}

\* ------------------------------------------------------------ claim C18
\* The path is somewhere between the walker and a program of the run.
Dispatched(p) ==
    \/ p \in Range(pathsCh)
    \/ dpc = "range" /\ dPath = p
    \/ \E f \in DOMAIN inbox : p \in Range(inbox[f]) \/ p \in Range(batch[f])
    \/ \E f \in DOMAIN started : p \in started[f]

\* The run writes nothing to the cache: no path is passed to cache.Update
\* and the entries keep the signature they were opened with.
NothingRecorded ==
    /\ recorded = {}
    /\ atOpen.open => entrySig = atOpen.sig

\* C18: in a run with --no-cache, whatever earlier runs have recorded, no
\* directory or symlink is dispatched and no cache entry is written, and
\* when the run has succeeded every regular file of the tree that a
\* formatter wants has been formatted.
C18_NoCacheFormatsAll ==
    noCache =>
        /\ \A p \in irregular : ~Dispatched(p)
        /\ NothingRecorded
        /\ RunSucceeded =>
              \A p \in RegularFiles : WantedBySome(p) => Formatted(p)

\* What does hold without the cache: the same for the runs in which no
\* invocation of a formatter program failed.
NoCacheWithoutFailure ==
    noCache =>
        /\ \A p \in irregular : ~Dispatched(p)
        /\ NothingRecorded
        /\ (RunSucceeded /\ ~InvocationFailed) =>
              \A p \in RegularFiles : WantedBySome(p) => Formatted(p)

\* ------------------------------------------------------------ claim C19
\* The order of the shutdown in a run without a failed invocation: a root
\* is closed after the path source is exhausted, a stage has returned after
\* its queue was closed and drained, completedCh is closed after every stage
\* has returned, and the drainer has finished after the closure of
\* completedCh; the run then returns nil.
ShutdownInOrder ==
    ~InvocationFailed =>
        /\ \A f \in DOMAIN inboxClosed :
              (inboxClosed[f] /\ parent[f] = NoName) =>
                  (ppc = "done" /\ pathsClosed /\ pathsCh = <<>>)
        /\ \A f \in DOMAIN spc :
              spc[f] = "done" =>
                  (inboxClosed[f] /\ inbox[f] = <<>> /\ batch[f] = <<>>)
        /\ completedClosed =>
              /\ \A f \in DOMAIN spc : spc[f] = "done"
              /\ \A f \in DOMAIN inboxClosed : inboxClosed[f]
        /\ cpc = "done" => (DrainedToClosure /\ cBatch = <<>>)
        /\ (phase = "returned" /\ ~ConfigurationFails) => runErr = "none"

RecordsConserved ==
    \A p \in Paths :
        emitted[p] = flushed[p] + Occurrences(cBatch, p)
                        + Occurrences(completedCh, p)

\* C20: whatever the batch capacity, every completion record is passed to
\* one cache-update batch and to no other, and when the run has succeeded
\* every record sent has been passed to one: none is left in the channel
\* or in the batch.
C20_RecordsFlushedOnce ==
    /\ RecordsConserved
    /\ RunSucceeded =>
          /\ flushed = emitted
          /\ ~noCache => recorded = { p \in Paths : emitted[p] > 0 }

\* A successful run whose last records were flushed after the closure of
\* completedCh, from a batch that never got full.
C20_Witness ==
    /\ RunSucceeded
    /\ batchSize > BatchSize
    /\ \E p \in Paths : \E q \in Paths \ {p} : emitted[p] > 0 /\ emitted[q] > 0
    /\ flushed = emitted

\* ------------------------------------------------------------ claim C21
\* Formatter.Run of f has returned.
Returned(f) == sRet[f].err # "running"
\* The error of the first failed invocation of a program.
FirstFailure == [err |-> "exec", inv |-> 1]

\* C21: Formatter.Run returns the error of the first failing invocation of
\* its program: once an invocation has failed it does not return nil, what
\* it returns is the error of that invocation, and it does not report
\* success with paths left in its inbox or its batch.
C21_RunReturnsFirstFailure ==
    \A f \in DOMAIN sRet :
        (Returned(f) /\ failures[f] > 0) =>
            /\ sRet[f].err # "none"
            /\ sRet[f] = FirstFailure
            /\ sRet[f].err = "none" => (inbox[f] = <<>> /\ batch[f] = <<>>)

\* What does hold of the value Run returns: nil is returned with an empty
\* batch only (the last flush succeeded), and an error of apply is the
\* error of the last invocation or of a program that could not be started.
NilAfterSuccessfulFlush ==
    \A f \in DOMAIN sRet :
        /\ sRet[f].err = "none" => batch[f] = <<>>
        /\ sRet[f].err = "exec" => sRet[f].inv \in {0, failures[f]}

\* ------------------------------------------------------------ claim C22
\* The number of times p was put into the inbox of f, and the number of
\* invocations of f's program that had p in their batch.
Submissions(f, p) == Occurrences(putSeq[f], p)
Invocations(f, p) == Occurrences(invSeq[f], p)

\* No task has returned an error and no invocation has failed: the run is
\* without error and its context is not cancelled before the return.
WithoutError == egErr = "none" /\ ~InvocationFailed

\* C22: on a run without error or cancellation every path put into the
\* inbox of a stage is in the batch of exactly one invocation of the
\* stage's program per submission: a submission is in the inbox, in the
\* batch that is being filled, or has been passed to one invocation, and
\* when the run has returned every submission has been passed to one.
C22_SubmittedInvokedOnce ==
    WithoutError =>
        \A f \in DOMAIN putSeq : \A p \in Paths :
            /\ Submissions(f, p) =
                  Invocations(f, p) + Occurrences(inbox[f], p)
                    + (IF spc[f] = "loop" THEN Occurrences(batch[f], p) ELSE 0)
            /\ RunSucceeded => Invocations(f, p) = Submissions(f, p)

\* A successful run in which a stage with batches of several paths was given
\* every path twice, by the dispatcher and by the stage before it.
C22_Witness ==
    /\ RunSucceeded
    /\ ~InvocationFailed
    /\ fBatchSize > BatchSize
    /\ \E f \in DOMAIN putSeq :
          /\ \A p \in RegularFiles : Submissions(f, p) = 2
          /\ Len(invSeq[f]) = 2 * NumPaths

\* ------------------------------------------------------------ claim C23
\* The number of paths f has taken from its inbox.
Received(f) == Len(putSeq[f]) - Len(inbox[f])

\* An invocation in progress has a batch of 1 to batchSize paths.
BatchWithinCapacity ==
    \A f \in DOMAIN spc :
        spc[f] \in {"invoke", "invokeF"} =>
            (1 <= Len(batch[f]) /\ Len(batch[f]) <= fBatchSize)

\* The apply of the loop runs on a batch that has reached batchSize, the
\* apply after the loop once the inbox is closed and drained; a batch that
\* has reached batchSize does not wait in the loop.
FlushAtFullOrClosed ==
    \A f \in DOMAIN spc :
        /\ spc[f] \in {"invoke", "emit"} => Len(batch[f]) = fBatchSize
        /\ spc[f] \in {"invokeF", "emitF"} => (inboxClosed[f] /\ inbox[f] = <<>>)
        /\ spc[f] = "loop" => Len(batch[f]) < fBatchSize

\* The batch holds the paths received since the last successful flush and
\* no other, and it is empty when Run has returned nil.
EmptyAfterFlush ==
    \A f \in DOMAIN spc :
        /\ spc[f] = "loop" => Len(batch[f]) = Received(f) - Len(outSeq[f])
        /\ sRet[f].err = "none" => batch[f] = <<>>

\* C23: every invocation of a stage's program receives a non-empty batch
\* of at most batchSize paths; a flush happens exactly when the batch
\* reaches batchSize or when the inbox is closed; the batch is empty after
\* every successful flush.
C23_FlushWhenFullOrClosed ==
    /\ BatchWithinCapacity
    /\ FlushAtFullOrClosed
    /\ EmptyAfterFlush

\* What does hold of the batches: the same, with the moments of the flushes
\* for the stages none of whose invocations has failed.
FlushWithoutFailure ==
    /\ BatchWithinCapacity
    /\ EmptyAfterFlush
    /\ \A f \in DOMAIN spc :
          failures[f] = 0 =>
              /\ spc[f] \in {"invoke", "emit"} => Len(batch[f]) = fBatchSize
              /\ spc[f] \in {"invokeF", "emitF"} =>
                    (inboxClosed[f] /\ inbox[f] = <<>>)
              /\ spc[f] = "loop" => Len(batch[f]) < fBatchSize

\* ------------------------------------------------------------ claim C24
RECURSIVE IsSubsequence(_, _)
\* The entries of a are in b, in the order they have in a.
IsSubsequence(a, b) ==
    IF a = <<>> THEN TRUE
    ELSE IF b = <<>> THEN FALSE
    ELSE IF Head(a) = Head(b) THEN IsSubsequence(Tail(a), Tail(b))
    ELSE IsSubsequence(a, Tail(b))

\* The part of the submissions of f from the one after the first k, n long.
Submitted(f, k, n) == SubSeq(putSeq[f], k + 1, k + n)

\* C24: within one stage the paths are passed to the program in the order
\* they were put into the inbox: the inbox holds the submissions not yet
\* received in their order, the batch the last ones received, an invocation
\* is given the submissions that follow the ones already flushed, in their
\* order, and after a successful flush they are forwarded or marked
\* complete in that order, and reach the downstream inbox in it.
C24_StageIsFifo ==
    \A f \in DOMAIN putSeq :
        /\ inbox[f] = Submitted(f, Received(f), Len(inbox[f]))
        /\ batch[f] = Submitted(f, Received(f) - Len(batch[f]), Len(batch[f]))
        /\ spc[f] \in {"invoke", "invokeF"} =>
              batch[f] = Submitted(f, Len(outSeq[f]), Len(batch[f]))
        /\ spc[f] \in {"emit", "emitF"} =>
              SubSeq(batch[f], sIdx[f], Len(batch[f]))
                  = Submitted(f, Len(outSeq[f]), Len(batch[f]) - sIdx[f] + 1)
        /\ outSeq[f] = Submitted(f, 0, Len(outSeq[f]))
        /\ child[f] # NoName => IsSubsequence(outSeq[f], putSeq[child[f]])

\* A successful run in which a stage with batches of several paths got its
\* paths in another order than the walk yields them, and passed all on.
C24_Witness ==
    /\ RunSucceeded
    /\ fBatchSize > BatchSize
    /\ \E f \in DOMAIN putSeq :
          /\ Len(putSeq[f]) = 2 * NumPaths
          /\ \E i \in 1..(Len(putSeq[f]) - 1) : putSeq[f][i] > putSeq[f][i + 1]
          /\ outSeq[f] = putSeq[f]

\* ------------------------------------------------------------ claim C25
\* The step in which Formatter.Run of f returns the context's error starts
\* no invocation and leaves the batch as it is.
StageUnwindsWithoutFlush(f) ==
    (sRet[f].err = "running" /\ sRet'[f].err = "ctx") =>
        /\ spc'[f] = "done"
        /\ batch'[f] = batch[f]
        /\ invSeq' = invSeq
        /\ started' = started

\* The step in which the drainer returns the context's error passes no
\* batch to processBatch: nothing is written to the cache or counted.
DrainerUnwindsWithoutFlush ==
    (cRet = "running" /\ cRet' = "ctx") =>
        /\ cpc' = "done"
        /\ cBatch' = cBatch
        /\ flushed' = flushed
        /\ recorded' = recorded
        /\ changes' = changes
        /\ cache' = cache
        /\ entrySig' = entrySig

\* C25: a stage or the completion drainer that observes cancellation
\* returns the cancellation error without flushing: the stage does not
\* invoke its program on the partially filled batch, and the drainer does
\* not pass its partially filled batch to the cache update.
C25_CancelWithoutFlush ==
    [][ /\ \A f \in DOMAIN sRet : f \in DOMAIN sRet' => StageUnwindsWithoutFlush(f)
        /\ DrainerUnwindsWithoutFlush ]_vars

\* A stage and the drainer have both returned on cancellation, each with a
\* partially filled batch.
C25_Witness ==
    /\ \E f \in DOMAIN sRet :
          /\ sRet[f].err = "ctx"
          /\ batch[f] # <<>>
          /\ Len(batch[f]) < fBatchSize
    /\ cRet = "ctx"
    /\ cBatch # <<>>
    /\ Len(cBatch) < batchSize

\* ------------------------------------------------------------ claim C26
\* The dispatcher has left the loop over pathsCh: the last path has been
\* dispatched.
DispatchOver == dpc \in {"await", "done"}

\* The dispatcher closes the formatters without a parent, all of them and
\* after the last path was dispatched, and no other; a formatter with a
\* parent is closed when the formatters that forward to it have returned.
\* A closed inbox is not closed again: a formatter is closed by one task,
\* the dispatcher or the last of its upstream stages to return.
ClosedByItsOwner ==
    \A f \in DOMAIN inboxClosed :
        /\ parent[f] = NoName => (inboxClosed[f] <=> DispatchOver)
        /\ (parent[f] # NoName /\ inboxClosed[f]) =>
              \A h \in DOMAIN spc : child[h] = f => spc[h] = "done"

QueuesSafeWithoutError ==
    /\ ClosedByItsOwner
    /\ WithoutError => ~panicked

\* ------------------------------------------------------------ claim C27
\* f declares a downstream formatter that was not instantiated.
Orphaned(f) == before[f] # NoName /\ before[f] \notin formatters

\* The number of times a formatter without a downstream has passed p on.
MarkedComplete(p) ==
    Cardinality({ x \in { <<f, i>> : f \in DOMAIN outSeq, i \in 1..(2 * NumPaths) } :
                    /\ child[x[1]] = NoName
                    /\ x[2] <= Len(outSeq[x[1]])
                    /\ outSeq[x[1]][x[2]] = p })

\* C27: a formatter whose declared downstream was not instantiated (left
\* out by the filter, or dropped as missing under the allow-missing policy)
\* is a terminal stage: it has no child, the absent formatter is given no
\* path, every path the formatter passes on is a completion record, when it
\* has returned nil it has passed on every path of its successful
\* invocations, and the run does not fail because of the absent downstream.
C27_AbsentDownstreamIsTerminal ==
    /\ \A f \in DOMAIN child :
          Orphaned(f) =>
              /\ child[f] = NoName
              /\ before[f] \notin DOMAIN inbox
              /\ f \in DOMAIN sRet =>
                    (sRet[f].err = "none" => Range(outSeq[f]) = succeeded[f])
    /\ \A p \in Paths : emitted[p] = MarkedComplete(p)
    /\ (phase = "returned" /\ PassesValidation /\ ~InvocationFailed
          /\ (allowMissing \/ ~MissingSelected)) => runErr = "none"

\* A successful run in which a formatter whose downstream was dropped as
\* missing has marked the path complete, next to another formatter.
C27_Witness ==
    /\ RunSucceeded
    /\ \E f \in formatters :
          /\ Orphaned(f)
          /\ before[f] \in missingCmd
          /\ outSeq[f] = <<1>>
          /\ emitted[1] > 0
          /\ formatters # {f}

\* ------------------------------------------------------------ claim C28
\* The dispatcher has put p into the inbox of a formatter that wants it.
Accepted(p) == \E f \in DOMAIN putSeq : Submissions(f, p) > 0

\* C28: on a successful run every path accepted by one formatter or by
\* several has produced exactly one completion record, passed to one cache
\* update, and a path no formatter accepted has produced none.
C28_OneRecordPerPath ==
    RunSucceeded =>
        \A p \in Paths :
            /\ emitted[p] = (IF Accepted(p) THEN 1 ELSE 0)
            /\ flushed[p] = emitted[p]

\* What does hold of the records: on a successful run without a failed
\* invocation an accepted path has produced a record for every time it was
\* put into the inbox of a formatter without a downstream, one at least, and
\* every record was passed to a cache update.
OneRecordPerTerminalSubmission ==
    (RunSucceeded /\ ~InvocationFailed) =>
        \A p \in Paths :
            /\ emitted[p] =
                  Cardinality({ x \in { <<f, i>> : f \in DOMAIN putSeq,
                                                  i \in 1..(2 * NumPaths) } :
                                  /\ child[x[1]] = NoName
                                  /\ x[2] <= Len(putSeq[x[1]])
                                  /\ putSeq[x[1]][x[2]] = p })
            /\ Accepted(p) => emitted[p] >= 1
            /\ flushed[p] = emitted[p]

\* ------------------------------------------------------------ claim C29
\* The program of f is running on f.batch.
InProgress(f) == spc[f] \in {"invoke", "invokeF"}

\* C29: in no reachable state are the programs of two formatters running
\* at the same time on batches that have a path in common.
C29_NoConcurrentInvocationsOnPath ==
    \A f \in DOMAIN spc : \A g \in DOMAIN spc \ {f} :
        (InProgress(f) /\ InProgress(g)) =>
            Range(batch[f]) \cap Range(batch[g]) = {}

\* ------------------------------------------------------------ claim C30
\* The run counters. Format.Run keeps the changed count (changes); the
\* other three are the counts the specification defines: the paths the
\* walk has offered, the paths a formatter has accepted and the paths that
\* were passed to a program, each path counted once.
Traversed == pNext - 1
Matched == Cardinality({ p \in Paths : Accepted(p) })
FormattedCount == Cardinality({ p \in Paths : Formatted(p) })
Changed == changes

CountersOrdered ==
    /\ Changed <= FormattedCount
    /\ FormattedCount <= Matched
    /\ Matched <= Traversed

\* No step of a run decreases a counter.
CountersGrow ==
    phase' = "running" =>
        /\ Traversed' >= Traversed
        /\ Matched' >= Matched
        /\ FormattedCount' >= FormattedCount
        /\ Changed' >= Changed

\* C30: the run counters never decrease during a run, and in every
\* reachable state changed <= formatted <= matched <= traversed: the
\* changed count never exceeds the number of distinct paths that were
\* formatted, with the cache and without it.
C30_CountersOrdered == []CountersOrdered /\ [][CountersGrow]_vars

\* The number of completion records passed to processBatch.
RecordsFlushed ==
    Cardinality({ x \in Paths \X (1..(2 * NumNames)) : x[2] <= flushed[x[1]] })

\* What does hold of the counters: they never decrease, formatted <=
\* matched <= traversed, and the changed count does not exceed the number
\* of completion records the drainer has processed.
CountersGrowAndNest ==
    /\ [](/\ FormattedCount <= Matched
          /\ Matched <= Traversed
          /\ Changed <= RecordsFlushed)
    /\ [][CountersGrow]_vars

\* ------------------------------------------------------------ claim C31
\* A call of Read has returned and none is under way.
ReadReturned == rpc = "idle" /\ scanner = "set"

\* What a returned Read leaves: n, files and err.
ReadResult ==
    ReadReturned =>
        /\ rN \in 0..rLen
        /\ Len(rFiles) = rN
        /\ rFiles = SubSeq(handed, Len(handed) - rN + 1, Len(handed))
        /\ \A i \in 1..rN : listing[rFiles[i]] = "ok"
        /\ rErr \in {"nil", "EOF", "ctx", "stat"}
        /\ rErr = "nil" => rN = rLen
        /\ rErr = "EOF" => scanned = Len(listing) /\ cmdRun = "returned"
        /\ rErr = "ctx" => ctxDone

\* The counter holds the files of the calls that have returned.
TraversedIsHandedOut ==
    statsTraversed + (IF rpc = "idle" THEN 0 ELSE rN) = Len(handed)

\* A Read that finds the context cancelled returns its error, and one that
\* finds the listing at its end returns io.EOF, with the files it has.
ReadEnds ==
    /\ (rpc = "loop" /\ rN < rLen /\ ctxDone /\ rpc' = "idle")
          => rErr' = "ctx" /\ rN' = rN
    /\ (rpc = "scan" /\ Buffered = 0 /\ cmdRun = "returned" /\ rpc' = "idle")
          => rErr' = "EOF" /\ rN' = rN

\* C31: every call of Read returns n between 0 and len(files) with the
\* first n entries of files filled; its error is nil only when n is
\* len(files), io.EOF when the listing is exhausted and the context's error
\* on cancellation; and every return adds n to the Traversed counter, which
\* so equals the number of files handed out by the calls so far.
C31_ReadResultAndTraversed ==
    /\ [](ReadResult /\ TraversedIsHandedOut)
    /\ [][ReadEnds]_vars

\* A second call has come to the end of the listing with a file, after a
\* call that filled its files.
C31_Witness ==
    /\ ReadReturned
    /\ rErr = "EOF"
    /\ rN >= 1
    /\ statsTraversed > rN
    /\ statsTraversed = Len(handed)

\* ------------------------------------------------------------ claim C32
\* os.Stat finds the listed path p.
IsThere(p) == listing[p] = "ok"

\* The first k listed paths that are there, in the order of the listing.
ThereAmong(k) == SelectSeq([p \in 1..k |-> p], IsThere)

\* The files handed out are the scanned paths that exist, each once and in
\* the order of the listing, and no other path is counted.
OnlyExistingHandedOut ==
    /\ handed = ThereAmong(scanned)
    /\ statsTraversed <= Len(ThereAmong(scanned))

\* A returned stat error is the failure of os.Stat on the last path scanned.
StatErrorIsOfLastPath ==
    (ReadReturned /\ rErr = "stat") => (scanned >= 1 /\ listing[scanned] = "error")

\* The step in which Scan returns a path: a removed path changes nothing
\* of the result and Read goes on with its loop; another failure of
\* os.Stat ends Read with an error.
ScannedPathStep ==
    scanned' = scanned + 1 =>
        /\ listing[scanned'] = "notexist" =>
              /\ rpc' = "loop"
              /\ <<rN, rFiles, rErr, statsTraversed, handed>>'
                    = <<rN, rFiles, rErr, statsTraversed, handed>>
        /\ listing[scanned'] = "error" =>
              /\ rpc' = "idle"
              /\ rErr' = "stat"
              /\ <<rN, rFiles, handed>>' = <<rN, rFiles, handed>>

\* C32: a listed path that no longer exists is skipped by Read: it is not
\* put into files, not counted in n or in Traversed, and Read goes on with
\* the next listed path; any other failure of os.Stat ends Read with an
\* error.
C32_RemovedPathSkipped ==
    /\ [](OnlyExistingHandedOut /\ StatErrorIsOfLastPath)
    /\ [][ScannedPathStep]_vars

\* A call has passed over a removed path, handed out the path listed after
\* it and ended on a path os.Stat failed on.
C32_Witness ==
    /\ ReadReturned
    /\ rErr = "stat"
    /\ rN >= 1
    /\ \E p \in 1..scanned : listing[p] = "notexist" /\ rFiles[1] > p

\* ------------------------------------------------------------ claim C33
\* The git command has been started once at most.
StartedAtMostOnce == starts <= 1

\* Every call of Close returns.
CloseReturns == (closePc = "wait") ~> (closePc = "returned")

\* C33: over any sequence of Read calls the git listing command is started
\* at most once, and Close eventually returns in every execution, also when
\* reading stopped before the end of the listing because Read returned on
\* cancellation or on a stat error.
C33_StartedOnceAndCloseReturns == []StartedAtMostOnce /\ CloseReturns

\* Close is waiting for a command that is blocked in a write to the pipe:
\* part of the listing has not been read, and nothing reads after Close.
CloseBlocked ==
    /\ closePc = "wait"
    /\ cmdRun = "running"
    /\ written < Len(listing)

\* What does hold: Close returns when Read was never called, and when the
\* scanner has taken the whole output of the command.
CloseReturnsAfterWholeListing ==
    (closePc = "wait" /\ written = Len(listing)) ~> (closePc = "returned")

\* Close never returns from a blocked command.
CloseBlockedForGood == [][CloseBlocked => CloseBlocked']_vars
====
